---- MODULE Spec2Model ----
(***************************************************************************)
(* A model of the kitsune technology profiler: the implies engine, the     *)
(* FingerprintURL request (gathering, error aggregation, vector matchers), *)
(* the regex watchdog, the TLS issuer cache of the default HTTP client and *)
(* the fingerprint updater (normalize, lint, write).                       *)
(***************************************************************************)
EXTENDS Integers, Sequences, FiniteSets, TLC

----------------------------------------------------------------------------
(* Bounds of the model *)

\* longest implies list of a fingerprint
MaxImplies == 2

\* calls of matchWithTimeout made by the request goroutine
MaxCalls == 2

\* Gets made with the default HTTP client
MaxFetches == 3

\* patterns in the data the updater fetches
MaxPatterns == 2

----------------------------------------------------------------------------
(* Confidence levels, kitsune.ConfidenceLevel (iota) *)

ConfidenceLow == 0
ConfidenceMedium == 1
ConfidenceHigh == 2

Confidences == {ConfidenceLow, ConfidenceMedium, ConfidenceHigh}

\* technologies with an entry in the fingerprint database (k.apps)
KnownApps == {"A", "B"}
\* every name an implies list may hold; "U" has no entry in k.apps
TechNames == KnownApps \cup {"U"}

None == "none"

\* sequences over S of length at most n
RECURSIVE SeqsUpTo(_, _)
SeqsUpTo(S, n) ==
    IF n = 0 THEN {<<>>}
    ELSE LET shorter == SeqsUpTo(S, n - 1)
         IN  shorter \cup {Append(s, x) : s \in shorter, x \in S}

\* the orders in which Go may range over a map with key set S
RECURSIVE Orders(_)
Orders(S) ==
    IF S = {} THEN {<<>>}
    ELSE UNION {{<<x>> \o rest : rest \in Orders(S \ {x})} : x \in S}

Range(s) == {s[i] : i \in DOMAIN s}

\* the map m with m[k] set to v (k added when absent)
MapPut(m, k, v) == [x \in (DOMAIN m) \cup {k} |-> IF x = k THEN v ELSE m[x]]

EmptyMap == [x \in {} |-> None]

----------------------------------------------------------------------------
(* State *)

VARIABLES
    \* --- the engine instance and runImpliesEngine
    apps,        \* k.apps: name -> [Implies: sequence of names]
    detected,    \* the request's detected map: name -> Detection
    queue,       \* runImpliesEngine: queue
    processed,   \* runImpliesEngine: processed
    epc,         \* runImpliesEngine: "idle", "call", "loop", "done"
    detected0,   \* the detected map when runImpliesEngine was entered
    enqCount,    \* how often each name entered the queue
    procCount,   \* how often each name passed the processed check
    \* --- FingerprintURL
    urlOk,       \* whether url.Parse(targetUrl) succeeds
    rpc,         \* position of the request goroutine
    tpc,         \* position of each gathering goroutine
    wg,          \* the WaitGroup counter
    errChan,     \* the buffered channel of fetchResult
    chanClosed,  \* whether errChan is closed
    getErr,      \* per task, the error of its fetch: "unset", "nil", "err"
    lookupErr,   \* txtErr and mxErr of the DNS task: "unset", "nil", "err"
    data,        \* analysisData: MainResponse, Body, RobotsContent, CertIssuer, PageData
    analysisErr, \* AnalysisError: which of MainPageErr, RobotsErr, DNSErr is non-nil
    mi,          \* index of the next matcher of runAllMatchers
    called,      \* the matcher functions invoked so far, in order
    hits,        \* the technologies whose patterns matched in the last matcher
    ret,         \* the return value of FingerprintURL
    robotsStatus, \* the outcome of the robots Get: "unset", "err", "200", "other"
    handshakes,  \* the TLS handshakes made by the Gets of this request
    writes,      \* per app, the last overwriting matcher that matched it and the
                 \* highest confidence such a matcher wrote for it
    \* --- the default HTTP client
    certInfoCache, \* k.certInfoCache: host -> issuer
    hpc,         \* position of a Get of the default client
    hconn,       \* the TLS connection state of the handshake of that Get
    fetches,     \* the number of Gets made
    \* --- matchWithTimeout
    wpc,         \* position of the caller: "idle", "select"
    cur,         \* the number of calls made; the current call while in select
    gpc,         \* per call, position of its match goroutine
    gres,        \* per call, the result of re.FindStringSubmatch
    done,        \* per call, the buffer of its done channel
    timer,       \* per call, the timer of time.After
    wret,        \* per call, the value returned to the caller
    via,         \* per call, the select case that returned
    \* --- kitsune-updater
    upc,         \* position of main
    rawApps,     \* mergedApps: the patterns fetched
    normalizedData, \* the output of NormalizeFromBytes
    lintResult,  \* the error Lint returned: "unset", "nil", "err"
    fpFile,      \* kitsune/fingerprints_data.json as written by this run
    catsFile,    \* kitsune/categories_data.json as written by this run
    \* --- normalizePatternArray, run twice on one input
    nraw,        \* the raw JSON value of one pattern-array field
    nout,        \* per run, the []Pattern the run returned
    \* --- the name-keyed matchers (headers, cookies, meta)
    lvec,        \* the vector under test
    ldb,         \* per app, the key of its pattern as fingerprints_data.json spells it
    lorder,      \* the order in which BuildEfficientMatcher ranged over k.apps
    litems,      \* the named items of the response, in order
    lres,        \* per run, the set of apps the matcher detected
    \* --- collectDataFromDOM and the body matchers
    ddoc,        \* the children of body, in document order
    dpage,       \* the PageData collected
    ddet,        \* the detected map: app -> DetectedBy
    dpc,         \* position: "idle", "collect", "script", "html", "done"
    \* -- state of the further components
    domSelectors, \* per app, af.DOM: the selectors of its dom field
    DOMPatterns, \* matcher.DOMPatterns
    docElems, \* the elements of the parsed document
    domDetected, \* the detected map matchDOM writes to
    bpc, \* position: "idle", "build", "match", "done"
    ppc, \* position of the request goroutine in analyzeWithPipeline
    added, \* the number of AddURL calls made
    urlChan, \* af.urlChan: the asset URLs sent and not yet received
    urlClosed, \* af.urlChan is closed
    pipeWg, \* the counter of the WaitGroup of analyzeWithPipeline
    cpc, \* position of the consumer goroutine of Start
    assetURL, \* the URL the consumer received last
    wpos, \* per asset URL, position of its processURL worker
    jsContent, \* the keys of the jsContent map
    lateWrites, \* the URLs written to jsContent after wg.Wait() returned
    others, \* the DNS and robots goroutines still running
    pVersion, \* p.Version: the version template, as a sequence of tokens
    submatches, \* the submatches of the match, the whole match first
    extracted, \* the string extractVersion returned
    rawField, \* the field normalized: "headers", "cookies" or "meta"
    rawMap, \* fp[field]: per key of the raw JSON object, its value
    outMap, \* the map of the output Fingerprint
    rawRegex, \* the regex of the raw pattern, as syntax.Parse reads it
    versionCmd, \* the version command of the raw pattern
    emitted, \* the ParsedPattern the normalizer emits
    numSubexp, \* the capture groups of the pattern the engine compiled
    found, \* the submatches of the engine's match
    detVersion, \* the Version of the Detection
    xpc, \* position: "raw", "emitted", "compiled", "matched", "dropped"
    ctor, \* the constructor called: "New" or "NewFromFile"
    clientArg, \* the client argument of New: "nil" or "custom"
    loadEmbedded, \* the loadEmbedded argument of NewFromFile
    env, \* whether the categories load, the fingerprints are read, and they parse
    khttp, \* k.httpClient: "nil", "default" or "custom"
    kerr, \* the error the constructor returned is non-nil
    kpc, \* position of the constructor and of the caller
    getCall \* k.httpClient.Get in FingerprintURL: "none", "called", "panic"
    \* -- end of state of the further components

engineVars == <<apps, detected, queue, processed, epc, detected0, enqCount, procCount>>

requestVars == <<urlOk, rpc, tpc, wg, errChan, chanClosed, getErr, lookupErr, data,
                 analysisErr, mi, called, hits, ret, robotsStatus, handshakes, writes>>

tlsVars == <<hpc, hconn, fetches>>

watchdogVars == <<wpc, cur, gpc, gres, done, timer, wret, via>>

updaterVars == <<upc, rawApps, normalizedData, lintResult, fpFile, catsFile>>

normVars == <<nraw, nout>>

lookupVars == <<lvec, ldb, lorder, litems, lres>>

domVars == <<ddoc, dpage, ddet, dpc>>

\* -- tuples of the further components
gateVars == <<domSelectors, DOMPatterns, docElems, domDetected, bpc>>

fetcherVars == <<ppc, added, urlChan, urlClosed, pipeWg, cpc, assetURL, wpos, jsContent, lateWrites, others>>

versionVars == <<pVersion, submatches, extracted>>

keyVars == <<rawField, rawMap, outMap>>

cleanVars == <<rawRegex, versionCmd, emitted, numSubexp, found, detVersion, xpc>>

ctorVars == <<ctor, clientArg, loadEmbedded, env, khttp, kerr, kpc, getCall>>

moreVars == <<gateVars, fetcherVars, versionVars, keyVars, cleanVars, ctorVars>>
\* -- end of tuples of the further components

\* the state of the pure functions checked on their own
pureVars == <<normVars, lookupVars, domVars, moreVars>>

\* the state of the other components
auxVars == <<tlsVars, watchdogVars, updaterVars, pureVars>>

vars == <<engineVars, requestVars, certInfoCache, auxVars>>

\* -- everything but one of the further components
oldVars == <<engineVars, requestVars, certInfoCache, tlsVars, watchdogVars, updaterVars,
             normVars, lookupVars, domVars>>

exceptGateVars == <<oldVars, fetcherVars, versionVars, keyVars, cleanVars, ctorVars>>

exceptFetcherVars == <<oldVars, gateVars, versionVars, keyVars, cleanVars, ctorVars>>

exceptVersionVars == <<oldVars, gateVars, fetcherVars, keyVars, cleanVars, ctorVars>>

exceptKeyVars == <<oldVars, gateVars, fetcherVars, versionVars, cleanVars, ctorVars>>

exceptCleanVars == <<oldVars, gateVars, fetcherVars, versionVars, keyVars, ctorVars>>

exceptCtorVars == <<oldVars, gateVars, fetcherVars, versionVars, keyVars, cleanVars>>
\* -- end of everything but one of the further components

----------------------------------------------------------------------------
(* Detection records *)

Detection(version, by, conf) ==
    [Version |-> version, DetectedBy |-> by, MatchedPattern |-> "pattern",
     MatchedValue |-> "value", Confidence |-> conf]

\* the Detection runImpliesEngine writes for a technology implied by t
ImpliedConfidence_High == ConfidenceHigh
ImpliedConfidence == ConfidenceMedium

ImpliedDetection(t) ==
    [Version |-> "", DetectedBy |-> <<"implies from: ", t>>, MatchedPattern |-> "",
     MatchedValue |-> "", Confidence |-> ImpliedConfidence]

----------------------------------------------------------------------------
(* Request data *)

\* the three gathering goroutines of FingerprintURL
Tasks == {"main", "robots", "dns"}

Hosts == {"h1", "h2"}
Issuers == {"CA1", "CA2"}

EmptyCache == [h \in Hosts |-> None]

\* analysisData as FingerprintURL allocates it
EmptyAnalysisData ==
    [MainResponse |-> "nil", Body |-> "nil", RobotsContent |-> "nil",
     CertIssuer |-> "", PageData |-> "nil"]

\* analysisErr := &AnalysisError{}
NoAnalysisError == [MainPageErr |-> FALSE, RobotsErr |-> FALSE, DNSErr |-> FALSE]

NoReturn == [map |-> "unset", err |-> "unset"]

\* no handshake so far
NoConn == [host |-> None, cert |-> [valid |-> FALSE, issuer |-> None]]

\* no Get is in progress on the default client
TLSIdle ==
    /\ hpc = "idle"
    /\ hconn = NoConn
    /\ fetches = 0

Calls == 1..MaxCalls

\* matchWithTimeout has not been called
WatchdogIdle ==
    /\ wpc = "idle"
    /\ cur = 0
    /\ gpc = [i \in Calls |-> "unborn"]
    /\ gres = [i \in Calls |-> "unset"]
    /\ done = [i \in Calls |-> <<>>]
    /\ timer = [i \in Calls |-> "unset"]
    /\ wret = [i \in Calls |-> "unset"]
    /\ via = [i \in Calls |-> "none"]

\* an output file this run of the updater has not written
NotWritten == [written |-> FALSE, content |-> {}]

\* the updater is not running
UpdaterIdle ==
    /\ upc = "idle"
    /\ rawApps = {}
    /\ normalizedData = {}
    /\ lintResult = "unset"
    /\ fpFile = NotWritten
    /\ catsFile = NotWritten

\* a JSON value of a pattern-array field: kind is the Go type json.Unmarshal gave it
RawValue(kind, items, keys) == [kind |-> kind, items |-> items, keys |-> keys]

NilValue == RawValue("nil", <<>>, {})

Runs == {1, 2}

NotRun == [done |-> FALSE, arr |-> <<>>]

\* normalizePatternArray is not running
NormIdle ==
    /\ nraw = NilValue
    /\ nout = [r \in Runs |-> NotRun]

LookupRuns == {"given", "lower", "clean"}

\* an app without a name-keyed pattern
NoPattern == [field |-> None, key |-> None]

NotMatched == [done |-> FALSE, header |-> {}, cookie |-> {}, meta |-> {}, js |-> {}]

\* no name-keyed matcher is running
LookupIdle ==
    /\ lvec = None
    /\ ldb = [a \in KnownApps |-> NoPattern]
    /\ lorder = <<>>
    /\ litems = <<>>
    /\ lres = [r \in LookupRuns |-> NotMatched]

NoPageData == [collected |-> FALSE, InlineScripts |-> <<>>, ScriptSrcs |-> <<>>,
               InlineCSS |-> <<>>, VisibleText |-> <<>>]

\* no document is being analysed
DomIdle ==
    /\ ddoc = <<>>
    /\ dpage = NoPageData
    /\ ddet = EmptyMap
    /\ dpc = "idle"

\* -- the further components at rest
GateIdle ==
    /\ domSelectors = [a \in KnownApps |-> <<>>]
    /\ DOMPatterns = <<>>
    /\ docElems = {}
    /\ domDetected = EmptyMap
    /\ bpc = "idle"

FetcherIdle ==
    /\ ppc = "idle"
    /\ added = 0
    /\ urlChan = <<>>
    /\ urlClosed = FALSE
    /\ pipeWg = 0
    /\ cpc = "idle"
    /\ assetURL = 0
    /\ wpos = [u \in {} |-> "none"]
    /\ jsContent = {}
    /\ lateWrites = {}
    /\ others = 0

VersionIdle ==
    /\ pVersion = <<>>
    /\ submatches = <<>>
    /\ extracted = [ran |-> FALSE, val |-> <<>>]

KeysIdle ==
    /\ rawField = "headers"
    /\ rawMap = << >>
    /\ outMap = [done |-> FALSE, map |-> << >>]

CleanIdle ==
    /\ rawRegex = [op |-> "literal", sub |-> <<>>]
    /\ versionCmd = ""
    /\ emitted = [done |-> FALSE, ok |-> FALSE, regex |-> <<>>]
    /\ numSubexp = 0
    /\ found = <<>>
    /\ detVersion = ""
    /\ xpc = "raw"

CtorIdle ==
    /\ ctor = "New"
    /\ clientArg = "nil"
    /\ loadEmbedded = FALSE
    /\ env = [cats |-> TRUE, read |-> TRUE, parse |-> TRUE]
    /\ khttp = "nil"
    /\ kerr = FALSE
    /\ kpc = "idle"
    /\ getCall = "none"

MoreIdle ==
    /\ GateIdle
    /\ FetcherIdle
    /\ VersionIdle
    /\ KeysIdle
    /\ CleanIdle
    /\ CtorIdle
\* -- end of the further components at rest

PureIdle ==
    /\ NormIdle
    /\ LookupIdle
    /\ DomIdle
    /\ MoreIdle

----------------------------------------------------------------------------
(* runImpliesEngine *)

\* the gate: only high-confidence detections propagate
GateOpen_Any(det, t) == t \in DOMAIN det
GateOpen(det, t) == t \in DOMAIN det /\ ~(det[t].Confidence < ConfidenceHigh)

\* whether impliedTech is recorded and enqueued
ShouldAdd_Always(det, u) == TRUE
ShouldAdd(det, u) == u \notin DOMAIN det

\* the inner loop over app.Implies: the state [det, q, enq] after the entries from i on
RECURSIVE ApplyImplies(_, _, _, _)
ApplyImplies(t, imp, i, st) ==
    IF i > Len(imp) THEN st
    ELSE LET u == imp[i]
         IN  IF ShouldAdd(st.det, u)
             THEN ApplyImplies(t, imp, i + 1,
                      [det |-> MapPut(st.det, u, ImpliedDetection(t)),
                       q   |-> Append(st.q, u),
                       enq |-> [st.enq EXCEPT ![u] = @ + 1]])
             ELSE ApplyImplies(t, imp, i + 1, st)

\* queue := the keys of detected, in map iteration order
ImpliesSeed ==
    /\ epc = "call"
    /\ \E order \in Orders(DOMAIN detected) :
          /\ queue' = order
          /\ enqCount' = [n \in TechNames |-> IF n \in DOMAIN detected THEN 1 ELSE 0]
    /\ processed' = {}
    /\ procCount' = [n \in TechNames |-> 0]
    /\ detected0' = detected
    /\ epc' = "loop"
    /\ UNCHANGED <<auxVars, apps, detected, requestVars, certInfoCache>>

\* one iteration of the for len(queue) > 0 loop
ImpliesPop ==
    /\ epc = "loop"
    /\ Len(queue) > 0
    /\ LET techName == Head(queue)
           rest == Tail(queue)
       IN  IF techName \in processed
           THEN /\ queue' = rest
                /\ UNCHANGED <<detected, processed, enqCount, procCount>>
           ELSE /\ processed' = processed \cup {techName}
                /\ procCount' = [procCount EXCEPT ![techName] = @ + 1]
                /\ IF GateOpen(detected, techName) /\ techName \in DOMAIN apps
                   THEN LET st == ApplyImplies(techName, apps[techName].Implies, 1,
                                      [det |-> detected, q |-> rest, enq |-> enqCount])
                        IN  /\ detected' = st.det
                            /\ queue' = st.q
                            /\ enqCount' = st.enq
                   ELSE /\ queue' = rest
                        /\ UNCHANGED <<detected, enqCount>>
    /\ UNCHANGED <<auxVars, apps, epc, detected0, requestVars, certInfoCache>>

\* the loop ends when the queue is empty
ImpliesReturn ==
    /\ epc = "loop"
    /\ Len(queue) = 0
    /\ epc' = "done"
    /\ UNCHANGED <<auxVars, apps, detected, queue, processed, detected0, enqCount, procCount,
                   requestVars, certInfoCache>>

----------------------------------------------------------------------------
(* The implies engine on its own: any database, any detected map *)

\* a Detection as a matcher of the given confidence level writes it
SeedDetection(c) ==
    IF c = ConfidenceHigh THEN Detection("1.0", "header", ConfidenceHigh)
    ELSE IF c = ConfidenceMedium THEN Detection("1.0", "meta", ConfidenceMedium)
    ELSE Detection("1.0", "html", ConfidenceLow)

ImpliesLists == SeqsUpTo(TechNames, MaxImplies)

Databases == [KnownApps -> [Implies : ImpliesLists]]

SeedMaps ==
    UNION {[S -> {SeedDetection(c) : c \in Confidences}] : S \in SUBSET KnownApps}

\* no matcher has written for any app
NoWrites == [a \in KnownApps |-> [last |-> None, best |-> ConfidenceLow]]

\* the engine alone: no request is in flight
RequestIdle ==
    /\ urlOk = TRUE
    /\ rpc = "idle"
    /\ tpc = [t \in Tasks |-> "idle"]
    /\ wg = 0
    /\ errChan = <<>>
    /\ chanClosed = FALSE
    /\ getErr = [t \in {"main", "robots"} |-> "unset"]
    /\ lookupErr = [r \in {"TXT", "MX"} |-> "unset"]
    /\ data = EmptyAnalysisData
    /\ analysisErr = NoAnalysisError
    /\ mi = 1
    /\ called = <<>>
    /\ hits = {}
    /\ ret = NoReturn
    /\ robotsStatus = "unset"
    /\ handshakes = 0
    /\ writes = NoWrites

InitImplies ==
    /\ RequestIdle
    /\ TLSIdle
    /\ WatchdogIdle
    /\ UpdaterIdle
    /\ PureIdle
    /\ certInfoCache = EmptyCache
    /\ apps \in Databases
    /\ detected \in SeedMaps
    /\ queue = <<>>
    /\ processed = {}
    /\ epc = "call"
    /\ detected0 = detected
    /\ enqCount = [n \in TechNames |-> 0]
    /\ procCount = [n \in TechNames |-> 0]

NextImplies ==
    \/ ImpliesSeed
    \/ ImpliesPop
    \/ ImpliesReturn

SpecImplies == InitImplies /\ [][NextImplies]_vars

FairSpecImplies == SpecImplies /\ WF_vars(NextImplies)

----------------------------------------------------------------------------
(* Properties of the implies engine *)

ImpliesOf(t) == IF t \in DOMAIN apps THEN Range(apps[t].Implies) ELSE {}

HighSeeds == {t \in DOMAIN detected0 : detected0[t].Confidence = ConfidenceHigh}

\* C1: if every entry of the detected map has confidence below High when the
\* engine starts, the set of detected names on return equals the set on entry.
C1_ImpliesGating ==
    (epc = "done" /\ \A t \in DOMAIN detected0 : detected0[t].Confidence < ConfidenceHigh)
        => DOMAIN detected = DOMAIN detected0

\* the engine returned from seeds that are all below High, one of which implies
\* a name that is not detected
C1_Witness ==
    /\ epc = "done"
    /\ \A t \in DOMAIN detected0 : detected0[t].Confidence < ConfidenceHigh
    /\ \E t \in DOMAIN detected0 : ImpliesOf(t) \ DOMAIN detected0 # {}
    /\ \E t \in DOMAIN detected0 : detected0[t].Confidence = ConfidenceMedium

\* the step of runImpliesEngine that processes the High-confidence technology t
ProcessesHigh(t) ==
    /\ epc = "loop"
    /\ Len(queue) > 0
    /\ Head(queue) = t
    /\ t \notin processed
    /\ t \in processed'
    /\ t \in DOMAIN detected
    /\ detected[t].Confidence = ConfidenceHigh

C2_Step ==
    \A t \in TechNames :
        ProcessesHigh(t) =>
            /\ \A u \in ImpliesOf(t) \ DOMAIN detected :
                  /\ u \in DOMAIN detected'
                  /\ detected'[u].DetectedBy = <<"implies from: ", t>>
                  /\ detected'[u].Confidence = ConfidenceMedium
            /\ \A u \in DOMAIN detected :
                  u \in DOMAIN detected' /\ detected'[u] = detected[u]

C2_Done ==
    epc = "done" =>
        /\ HighSeeds \subseteq processed
        /\ \A t \in HighSeeds : ImpliesOf(t) \subseteq DOMAIN detected
        /\ \A u \in DOMAIN detected0 :
              u \in DOMAIN detected /\ detected[u] = detected0[u]

\* C2: when the engine processes a technology t detected with confidence High,
\* each name of t.implies that is not yet detected is recorded with
\* detected_by "implies from: t" and confidence Medium, and every entry that is
\* already detected keeps its Detection; every High seed is processed so.
C2_ImpliesPropagation == [][C2_Step]_vars /\ []C2_Done

\* the engine returned after a High seed added one implied name and left
\* another implied name, detected before, as it was
C2_Witness ==
    /\ epc = "done"
    /\ \E t \in HighSeeds :
          /\ \E u \in ImpliesOf(t) \ DOMAIN detected0 :
                detected[u].DetectedBy = <<"implies from: ", t>>
          /\ \E u \in ImpliesOf(t) \cap DOMAIN detected0 :
                u # t /\ detected[u].Confidence = ConfidenceLow

\* C6: on return the set of detected names is a function of the database and of
\* the initial detected map alone (the seeds and the direct implies of the High
\* seeds), whatever the order of the queue; the entries differ between orders in
\* nothing but the detected_by of the added ones.
C6_OrderIndependent ==
    epc = "done" =>
        /\ DOMAIN detected = DOMAIN detected0 \cup UNION {ImpliesOf(t) : t \in HighSeeds}
        /\ \A n \in DOMAIN detected :
              IF n \in DOMAIN detected0
              THEN detected[n] = detected0[n]
              ELSE /\ detected[n].Confidence = ConfidenceMedium
                   /\ detected[n].Version = ""
                   /\ detected[n].MatchedPattern = ""
                   /\ detected[n].MatchedValue = ""
                   /\ \E t \in HighSeeds :
                         n \in ImpliesOf(t) /\ detected[n].DetectedBy = <<"implies from: ", t>>

\* two High seeds imply the same undetected name and the engine returned with
\* the second seed of the alphabet named as its source
C6_Witness ==
    /\ epc = "done"
    /\ HighSeeds = {"A", "B"}
    /\ "U" \in ImpliesOf("A") \cap ImpliesOf("B")
    /\ detected["U"].DetectedBy = <<"implies from: ", "B">>

C7_Counts == \A n \in TechNames : enqCount[n] <= 1 /\ procCount[n] <= 1

\* C7: the engine terminates for every database, cycles and self-loops
\* included: each name enters the queue at most once and is processed at most
\* once, and the loop reaches its end.
C7_ImpliesTerminates == []C7_Counts /\ <>(epc = "done")

\* the engine returned on a database with a self-loop and a two-cycle, both
\* technologies detected with confidence High
C7_Witness ==
    /\ epc = "done"
    /\ HighSeeds = {"A", "B"}
    /\ "A" \in ImpliesOf("A")
    /\ "A" \in ImpliesOf("B")
    /\ "B" \in ImpliesOf("A")
    /\ procCount["A"] = 1 /\ procCount["B"] = 1

\* C12: an unknown technology in implies is ignored: the engine records no
\* detection for a name that has no entry in the fingerprint database.
C12_UnknownImpliedNotRecorded ==
    \A n \in DOMAIN detected : n \in DOMAIN apps

----------------------------------------------------------------------------
(* The default HTTP client of kitsune.New: the VerifyConnection callback *)

Certs(issuers) == [valid : BOOLEAN, issuer : issuers]

\* a connection a Get runs on: without a handshake (plain HTTP, or a connection
\* that is reused), or after a TLS handshake in which the server presents cert
Conns(issuers) == {[tls |-> FALSE]} \cup {[tls |-> TRUE, cert |-> c] : c \in Certs(issuers)}

\* cs.PeerCertificates[0].Verify(opts) returns an error
VerifyFails(cert) == ~cert.valid

\* the callback: the result of Verify is dropped, the issuer of the leaf is
\* stored under the server name, and the callback returns nil
VerifyConnection(cache, serverName, cert) ==
    LET verifyErr == VerifyFails(cert)
    IN  [cache |-> [cache EXCEPT ![serverName] = cert.issuer], err |-> FALSE]

\* the cache after the connection of a Get to host is set up
AfterConnect(cache, host, conn) ==
    IF conn.tls THEN VerifyConnection(cache, host, conn.cert).cache ELSE cache

----------------------------------------------------------------------------
(* FingerprintURL: concurrent data gathering *)

\* errChan := make(chan fetchResult, 3)
ErrChanCap == 3

\* the host of targetUrl
TargetHost == "h1"

\* the issuers the target presents in the request model
TargetIssuers == {"CA1"}

\* wg.Add(1); go func() {...}() for the three tasks, in program order
Spawn(t, first, next) ==
    /\ wg' = wg + 1
    /\ tpc' = [tpc EXCEPT ![t] = first]
    /\ rpc' = next
    /\ UNCHANGED <<auxVars, writes, urlOk, robotsStatus, handshakes, errChan, chanClosed, getErr, lookupErr, data, analysisErr,
                   mi, called, hits, ret, engineVars, certInfoCache>>

SpawnMain == rpc = "spawnMain" /\ Spawn("main", "get", "spawnRobots")
SpawnRobots == rpc = "spawnRobots" /\ Spawn("robots", "parse", "spawnDNS")
SpawnDNS == rpc = "spawnDNS" /\ Spawn("dns", "parse", "wait")

\* resp, err := k.httpClient.Get(targetUrl)
MainGet ==
    /\ tpc["main"] = "get"
    /\ \E conn \in Conns(TargetIssuers), ok \in BOOLEAN :
          /\ certInfoCache' = AfterConnect(certInfoCache, TargetHost, conn)
          /\ handshakes' = handshakes + (IF conn.tls THEN 1 ELSE 0)
          /\ IF ok
             THEN /\ getErr' = [getErr EXCEPT !["main"] = "nil"]
                  /\ data' = [data EXCEPT !.MainResponse = "resp"]
                  /\ tpc' = [tpc EXCEPT !["main"] = "read"]
             ELSE /\ getErr' = [getErr EXCEPT !["main"] = "err"]
                  /\ data' = data
                  /\ tpc' = [tpc EXCEPT !["main"] = "send"]
    /\ UNCHANGED <<auxVars, writes, urlOk, robotsStatus, rpc, wg, errChan, chanClosed, lookupErr,
                   analysisErr, mi, called, hits, ret, engineVars>>

\* body, err := io.ReadAll(...); if err == nil { analysisData.Body = body }
MainRead ==
    /\ tpc["main"] = "read"
    /\ \E readOk \in BOOLEAN :
          data' = [data EXCEPT !.Body = IF readOk THEN "bytes" ELSE @]
    /\ tpc' = [tpc EXCEPT !["main"] = "send"]
    /\ UNCHANGED <<auxVars, writes, urlOk, robotsStatus, handshakes, rpc, wg, errChan, chanClosed, getErr, lookupErr, analysisErr,
                   mi, called, hits, ret, engineVars, certInfoCache>>

\* robotsURL, err := url.Parse(targetUrl) / parsedURL, err := url.Parse(targetUrl)
TaskParse(t, next) ==
    /\ tpc[t] = "parse"
    /\ tpc' = [tpc EXCEPT ![t] = IF urlOk THEN next ELSE "send"]
    /\ UNCHANGED <<auxVars, writes, urlOk, robotsStatus, handshakes, rpc, wg, errChan, chanClosed, getErr, lookupErr, data,
                   analysisErr, mi, called, hits, ret, engineVars, certInfoCache>>

RobotsParse == TaskParse("robots", "get")
DNSParse == TaskParse("dns", "txt")

\* resp, err := k.httpClient.Get(robotsURL.String())
RobotsGet ==
    /\ tpc["robots"] = "get"
    /\ \E conn \in Conns(TargetIssuers), outcome \in {"err", "200", "other"} :
          /\ certInfoCache' = AfterConnect(certInfoCache, TargetHost, conn)
          /\ handshakes' = handshakes + (IF conn.tls THEN 1 ELSE 0)
          /\ robotsStatus' = outcome
          /\ getErr' = [getErr EXCEPT !["robots"] = IF outcome = "err" THEN "err" ELSE "nil"]
          /\ tpc' = [tpc EXCEPT !["robots"] = IF outcome = "200" THEN "read" ELSE "send"]
    /\ UNCHANGED <<auxVars, writes, urlOk, rpc, wg, errChan, chanClosed, lookupErr, data, analysisErr,
                   mi, called, hits, ret, engineVars>>

\* content, err := io.ReadAll(...): this err is a new variable of the inner block
RobotsRead ==
    /\ tpc["robots"] = "read"
    /\ \E readOk \in BOOLEAN :
          data' = [data EXCEPT !.RobotsContent = IF readOk THEN "bytes" ELSE @]
    /\ tpc' = [tpc EXCEPT !["robots"] = "send"]
    /\ UNCHANGED <<auxVars, writes, urlOk, robotsStatus, handshakes, rpc, wg, errChan, chanClosed, getErr, lookupErr, analysisErr,
                   mi, called, hits, ret, engineVars, certInfoCache>>

\* txtRecords, txtErr := net.LookupTXT(host) / mxRecords, mxErr := net.LookupMX(host)
DNSLookup(at, rec, next) ==
    /\ tpc["dns"] = at
    /\ \E e \in {"nil", "err"} : lookupErr' = [lookupErr EXCEPT ![rec] = e]
    /\ tpc' = [tpc EXCEPT !["dns"] = next]
    /\ UNCHANGED <<auxVars, writes, urlOk, robotsStatus, handshakes, rpc, wg, errChan, chanClosed, getErr, data, analysisErr,
                   mi, called, hits, ret, engineVars, certInfoCache>>

DNSLookupTXT == DNSLookup("txt", "TXT", "mx")
DNSLookupMX == DNSLookup("mx", "MX", "send")

\* whether the fetchResult a task sends carries a non-nil err
SentErr_RobotsStatus(t) ==
    IF t = "main" THEN getErr["main"] = "err"
    ELSE IF t = "robots" THEN ~urlOk \/ robotsStatus # "200"
    ELSE ~urlOk \/ (lookupErr["TXT"] = "err" /\ lookupErr["MX"] = "err")

SentErr(t) ==
    IF t = "main" THEN getErr["main"] = "err"
    ELSE IF t = "robots" THEN ~urlOk \/ getErr["robots"] = "err"
    ELSE ~urlOk \/ (lookupErr["TXT"] = "err" /\ lookupErr["MX"] = "err")

\* errChan <- fetchResult{kind, err}: blocks while the buffer is full, panics
\* on a closed channel
TaskSend(t) ==
    /\ tpc[t] = "send"
    /\ Len(errChan) < ErrChanCap
    /\ IF chanClosed
       THEN /\ tpc' = [tpc EXCEPT ![t] = "panic"]
            /\ errChan' = errChan
       ELSE /\ tpc' = [tpc EXCEPT ![t] = "sent"]
            /\ errChan' = Append(errChan, [kind |-> t, err |-> SentErr(t)])
    /\ UNCHANGED <<auxVars, writes, urlOk, robotsStatus, handshakes, rpc, wg, chanClosed, getErr, lookupErr, data, analysisErr,
                   mi, called, hits, ret, engineVars, certInfoCache>>

\* defer wg.Done()
TaskDone(t) ==
    /\ tpc[t] = "sent"
    /\ tpc' = [tpc EXCEPT ![t] = "done"]
    /\ wg' = wg - 1
    /\ UNCHANGED <<auxVars, writes, urlOk, robotsStatus, handshakes, rpc, errChan, chanClosed, getErr, lookupErr, data, analysisErr,
                   mi, called, hits, ret, engineVars, certInfoCache>>

\* close(errChan) reached without waiting for the goroutines
Wait_NoWait ==
    /\ rpc = "wait"
    /\ rpc' = "close"
    /\ UNCHANGED <<auxVars, writes, urlOk, robotsStatus, handshakes, tpc, wg, errChan, chanClosed, getErr, lookupErr, data,
                   analysisErr, mi, called, hits, ret, engineVars, certInfoCache>>

\* wg.Wait()
Wait ==
    /\ rpc = "wait"
    /\ wg = 0
    /\ rpc' = "close"
    /\ UNCHANGED <<auxVars, writes, urlOk, robotsStatus, handshakes, tpc, wg, errChan, chanClosed, getErr, lookupErr, data,
                   analysisErr, mi, called, hits, ret, engineVars, certInfoCache>>

\* close(errChan)
Close ==
    /\ rpc = "close"
    /\ chanClosed' = TRUE
    /\ rpc' = "aggregate"
    /\ UNCHANGED <<auxVars, writes, urlOk, robotsStatus, handshakes, tpc, wg, errChan, getErr, lookupErr, data, analysisErr,
                   mi, called, hits, ret, engineVars, certInfoCache>>

----------------------------------------------------------------------------
(* FingerprintURL: error aggregation *)

\* the switch on res.kind, for a res with a non-nil err
Aggregate(e, res) ==
    IF ~res.err THEN e
    ELSE IF res.kind = "main" THEN [e EXCEPT !.MainPageErr = TRUE]
    ELSE IF res.kind = "robots" THEN [e EXCEPT !.RobotsErr = TRUE]
    ELSE [e EXCEPT !.DNSErr = TRUE]

\* one iteration of for res := range errChan
AggregateRecv ==
    /\ rpc = "aggregate"
    /\ Len(errChan) > 0
    /\ analysisErr' = Aggregate(analysisErr, Head(errChan))
    /\ errChan' = Tail(errChan)
    /\ UNCHANGED <<auxVars, writes, urlOk, robotsStatus, handshakes, rpc, tpc, wg, chanClosed, getErr, lookupErr, data,
                   mi, called, hits, ret, engineVars, certInfoCache>>

\* the range loop ends on the closed, drained channel
AggregateEnd ==
    /\ rpc = "aggregate"
    /\ Len(errChan) = 0
    /\ chanClosed
    /\ rpc' = "check"
    /\ UNCHANGED <<auxVars, writes, urlOk, robotsStatus, handshakes, tpc, wg, errChan, chanClosed, getErr, lookupErr, data,
                   analysisErr, mi, called, hits, ret, engineVars, certInfoCache>>

\* AnalysisError.IsFatal
IsFatal_MainOnly(e) == e.MainPageErr
IsFatal_Any(e) == e.MainPageErr \/ e.DNSErr \/ e.RobotsErr
IsFatal(e) == e.MainPageErr \/ e.DNSErr

\* if analysisErr.IsFatal() { return nil, analysisErr }
CheckFatal ==
    /\ rpc = "check"
    /\ IF IsFatal(analysisErr)
       THEN /\ ret' = [map |-> "nil", err |-> "analysisErr"]
            /\ rpc' = "returned"
       ELSE /\ ret' = ret
            /\ rpc' = "cert"
    /\ UNCHANGED <<auxVars, writes, urlOk, robotsStatus, handshakes, tpc, wg, errChan, chanClosed, getErr, lookupErr, data,
                   analysisErr, mi, called, hits, engineVars, certInfoCache>>

----------------------------------------------------------------------------
(* FingerprintURL: post-fetch processing *)

\* if val, ok := k.certInfoCache.Load(parsedURL.Hostname()); ok { CertIssuer = val }
LoadCert ==
    /\ rpc = "cert"
    /\ data' = IF urlOk /\ certInfoCache[TargetHost] # None
               THEN [data EXCEPT !.CertIssuer = certInfoCache[TargetHost]]
               ELSE data
    /\ rpc' = "dom"
    /\ UNCHANGED <<auxVars, writes, urlOk, robotsStatus, handshakes, tpc, wg, errChan, chanClosed, getErr, lookupErr, analysisErr,
                   mi, called, hits, ret, engineVars, certInfoCache>>

\* if analysisData.Body != nil { PageData = collectDataFromDOM(Body) }: "doc" is
\* a PageData with the parsed document, "noDoc" the empty one of a parse
\* failure (GoQueryDoc nil); then detected := make(map[string]Detection)
ParseDOM ==
    /\ rpc = "dom"
    /\ IF data.Body # "nil"
       THEN \E pd \in {"doc", "noDoc"} : data' = [data EXCEPT !.PageData = pd]
       ELSE data' = data
    /\ detected' = EmptyMap
    /\ mi' = 1
    /\ rpc' = "match"
    /\ UNCHANGED <<auxVars, writes, urlOk, robotsStatus, handshakes, tpc, wg, errChan, chanClosed, getErr, lookupErr, analysisErr,
                   called, hits, ret, certInfoCache,
                   apps, queue, processed, epc, detected0, enqCount, procCount>>

----------------------------------------------------------------------------
(* The vector matchers *)

\* detected[pi.AppName] = result for every technology in h
Overwrite(det, h, d) ==
    [n \in (DOMAIN det) \cup h |-> IF n \in h THEN d ELSE det[n]]

\* the same behind: if _, exists := detected[pi.AppName]; exists { continue }
KeepFirst(det, h, d) ==
    [n \in (DOMAIN det) \cup h |-> IF n \in DOMAIN det THEN det[n] ELSE d]

\* each matcher, given the technologies h whose patterns match its input
matchURL(det, h) == Overwrite(det, h, Detection("1.0", "url", ConfidenceMedium))
matchRobots(det, h) == Overwrite(det, h, Detection("1.0", "robots", ConfidenceMedium))
matchDNS(det, h) == Overwrite(det, h, Detection("1.0", "dns", ConfidenceHigh))
matchCertIssuer(det, h) == Overwrite(det, h, Detection("1.0", "certIssuer", ConfidenceHigh))
matchHeaders(det, h) == Overwrite(det, h, Detection("1.0", "header", ConfidenceHigh))
matchCookies(det, h) == Overwrite(det, h, Detection("1.0", "cookie", ConfidenceHigh))
matchScriptSrc(det, h) == Overwrite(det, h, Detection("1.0", "scriptSrc", ConfidenceHigh))
matchMeta_KeepFirst(det, h) == KeepFirst(det, h, Detection("1.0", "meta", ConfidenceMedium))
matchMeta(det, h) == Overwrite(det, h, Detection("1.0", "meta", ConfidenceMedium))
matchScript(det, h) == KeepFirst(det, h, Detection("1.0", "script", ConfidenceMedium))
matchHTML_Medium(det, h) == KeepFirst(det, h, Detection("1.0", "html", ConfidenceMedium))
matchHTML(det, h) == KeepFirst(det, h, Detection("1.0", "html", ConfidenceLow))
matchJS(det, h) == Overwrite(det, h, Detection("1.0", "js", ConfidenceHigh))
matchCSS(det, h) == KeepFirst(det, h, Detection("1.0", "css", ConfidenceMedium))
matchDOM(det, h) ==
    Overwrite(det, h, [Version |-> "", DetectedBy |-> "dom", MatchedPattern |-> "pattern",
                       MatchedValue |-> "CSS selector matched", Confidence |-> ConfidenceLow])

\* runAllMatchers: the order of the calls
MatcherOrder_MetaFirst ==
    <<"url", "robots", "dns", "certIssuer", "scriptSrc", "meta", "header", "cookie",
      "script", "html", "js", "css", "dom">>
MatcherOrder ==
    <<"url", "robots", "dns", "certIssuer", "header", "cookie",
      "scriptSrc", "meta", "script", "html", "js", "css", "dom">>

HeaderVectors == {"header", "cookie"}
BodyVectors == {"scriptSrc", "meta", "script", "html", "js", "css", "dom"}

ApplyMatcher(v, det, h) ==
    CASE v = "url" -> matchURL(det, h)
      [] v = "robots" -> matchRobots(det, h)
      [] v = "dns" -> matchDNS(det, h)
      [] v = "certIssuer" -> matchCertIssuer(det, h)
      [] v = "header" -> matchHeaders(det, h)
      [] v = "cookie" -> matchCookies(det, h)
      [] v = "scriptSrc" -> matchScriptSrc(det, h)
      [] v = "meta" -> matchMeta(det, h)
      [] v = "script" -> matchScript(det, h)
      [] v = "html" -> matchHTML(det, h)
      [] v = "js" -> matchJS(det, h)
      [] v = "css" -> matchCSS(det, h)
      [] v = "dom" -> matchDOM(det, h)

\* whether runAllMatchers calls the matcher of v
Invoked(v) ==
    IF v \in HeaderVectors THEN data.MainResponse # "nil"
    ELSE IF v \in BodyVectors THEN data.PageData # "nil"
    ELSE TRUE

\* whether the matcher of v, once called, has an input to match against
HasInput(v) ==
    CASE v = "robots" -> data.RobotsContent # "nil"
      [] v = "certIssuer" -> data.CertIssuer # ""
      [] v = "dns" -> lookupErr["TXT"] = "nil" \/ lookupErr["MX"] = "nil"
      [] v \in {"scriptSrc", "meta", "script", "js", "css", "dom"} -> data.PageData = "doc"
      [] OTHER -> TRUE

\* the confidence of each vector as the specification gives it
VectorConfidence(v) ==
    IF v \in {"header", "cookie", "scriptSrc", "js", "dns", "certIssuer"} THEN ConfidenceHigh
    ELSE IF v \in {"meta", "script", "css", "url", "robots"} THEN ConfidenceMedium
    ELSE ConfidenceLow

\* the matchers that write detected[pi.AppName] without looking at it first
OverwritingVectors ==
    {"url", "robots", "dns", "certIssuer", "header", "cookie", "scriptSrc", "meta", "js",
     "dom"}

\* the record of the writes after the matcher of v matched the apps of h
NoteWrites(w, v, h) ==
    [a \in KnownApps |->
        IF a \in h /\ v \in OverwritingVectors
        THEN [last |-> v,
              best |-> IF VectorConfidence(v) > w[a].best THEN VectorConfidence(v)
                       ELSE w[a].best]
        ELSE w[a]]

\* one call of runAllMatchers, or the if that skips it
MatchStep ==
    /\ rpc = "match"
    /\ mi <= Len(MatcherOrder)
    /\ LET v == MatcherOrder[mi]
       IN  IF Invoked(v)
           THEN /\ \E h \in (IF HasInput(v) THEN SUBSET KnownApps ELSE {{}}) :
                      /\ hits' = h
                      /\ detected' = ApplyMatcher(v, detected, h)
                      /\ writes' = NoteWrites(writes, v, h)
                /\ called' = Append(called, v)
           ELSE /\ hits' = {}
                /\ UNCHANGED <<detected, called, writes>>
    /\ mi' = mi + 1
    /\ UNCHANGED <<auxVars, urlOk, robotsStatus, handshakes, rpc, tpc, wg, errChan, chanClosed, getErr, lookupErr, data,
                   analysisErr, ret, certInfoCache,
                   apps, queue, processed, epc, detected0, enqCount, procCount>>

\* runAllMatchers returns
MatchersDone ==
    /\ rpc = "match"
    /\ mi > Len(MatcherOrder)
    /\ rpc' = "implies"
    /\ UNCHANGED <<auxVars, writes, urlOk, robotsStatus, handshakes, tpc, wg, errChan, chanClosed, getErr, lookupErr, data,
                   analysisErr, mi, called, hits, ret, engineVars, certInfoCache>>

\* k.runImpliesEngine(detected)
CallImplies ==
    /\ rpc = "implies"
    /\ epc = "idle"
    /\ epc' = "call"
    /\ rpc' = "engine"
    /\ UNCHANGED <<auxVars, writes, urlOk, robotsStatus, handshakes, tpc, wg, errChan, chanClosed, getErr, lookupErr, data,
                   analysisErr, mi, called, hits, ret, certInfoCache,
                   apps, detected, queue, processed, detected0, enqCount, procCount>>

\* if analysisErr.RobotsErr != nil { return detected, analysisErr }; return detected, nil
Return ==
    /\ rpc = "engine"
    /\ epc = "done"
    /\ ret' = [map |-> "detected",
               err |-> IF analysisErr.RobotsErr THEN "analysisErr" ELSE "nil"]
    /\ rpc' = "returned"
    /\ UNCHANGED <<auxVars, writes, urlOk, robotsStatus, handshakes, tpc, wg, errChan, chanClosed, getErr, lookupErr, data,
                   analysisErr, mi, called, hits, engineVars, certInfoCache>>

----------------------------------------------------------------------------
(* One FingerprintURL request on an engine instance *)

\* the database of the request model: a two-cycle and an unknown name
RequestDB ==
    [n \in KnownApps |-> [Implies |-> IF n = "A" THEN <<"B", "U">> ELSE <<"A">>]]

\* an engine instance on which runImpliesEngine is not running
EngineIdle ==
    /\ apps = RequestDB
    /\ detected = EmptyMap
    /\ queue = <<>>
    /\ processed = {}
    /\ epc = "idle"
    /\ detected0 = EmptyMap
    /\ enqCount = [n \in TechNames |-> 0]
    /\ procCount = [n \in TechNames |-> 0]

InitRequest ==
    /\ EngineIdle
    /\ TLSIdle
    /\ WatchdogIdle
    /\ UpdaterIdle
    /\ PureIdle
    /\ urlOk \in BOOLEAN
    /\ rpc = "spawnMain"
    /\ tpc = [t \in Tasks |-> "idle"]
    /\ wg = 0
    /\ errChan = <<>>
    /\ chanClosed = FALSE
    /\ getErr = [t \in {"main", "robots"} |-> "unset"]
    /\ lookupErr = [r \in {"TXT", "MX"} |-> "unset"]
    /\ data = EmptyAnalysisData
    /\ analysisErr = NoAnalysisError
    /\ mi = 1
    /\ called = <<>>
    /\ hits = {}
    /\ ret = NoReturn
    /\ robotsStatus = "unset"
    /\ handshakes = 0
    /\ writes = NoWrites
    /\ certInfoCache \in {EmptyCache, [EmptyCache EXCEPT ![TargetHost] = "CA1"]}

NextRequest ==
    \/ SpawnMain
    \/ SpawnRobots
    \/ SpawnDNS
    \/ MainGet
    \/ MainRead
    \/ RobotsParse
    \/ RobotsGet
    \/ RobotsRead
    \/ DNSParse
    \/ DNSLookupTXT
    \/ DNSLookupMX
    \/ \E t \in Tasks : TaskSend(t)
    \/ \E t \in Tasks : TaskDone(t)
    \/ Wait
    \/ Close
    \/ AggregateRecv
    \/ AggregateEnd
    \/ CheckFatal
    \/ LoadCert
    \/ ParseDOM
    \/ MatchStep
    \/ MatchersDone
    \/ CallImplies
    \/ ImpliesSeed
    \/ ImpliesPop
    \/ ImpliesReturn
    \/ Return

SpecRequest == InitRequest /\ [][NextRequest]_vars

\* FingerprintURL up to the end of the error aggregation
NextGather ==
    \/ SpawnMain
    \/ SpawnRobots
    \/ SpawnDNS
    \/ MainGet
    \/ MainRead
    \/ RobotsParse
    \/ RobotsGet
    \/ RobotsRead
    \/ DNSParse
    \/ DNSLookupTXT
    \/ DNSLookupMX
    \/ \E t \in Tasks : TaskSend(t)
    \/ \E t \in Tasks : TaskDone(t)
    \/ Wait
    \/ Close
    \/ AggregateRecv
    \/ AggregateEnd

SpecGather == InitRequest /\ [][NextGather]_vars

\* a runnable goroutine is scheduled and a fetch or lookup it started returns
FairSpecGather == SpecGather /\ WF_vars(NextGather)

----------------------------------------------------------------------------
(* Properties of FingerprintURL *)

\* what happened in the gathering tasks
MainFailed == getErr["main"] = "err"
RobotsFailed == ~urlOk \/ getErr["robots"] = "err"
DNSFailed == ~urlOk \/ (lookupErr["TXT"] = "err" /\ lookupErr["MX"] = "err")

\* runAllMatchers ran: every matcher that does not need the parsed body was
\* called, and all thirteen were called, in order, when the body was read
MatchersRan ==
    /\ mi > Len(MatcherOrder)
    /\ Range(MatcherOrder) \ BodyVectors \subseteq Range(called)
    /\ data.Body # "nil" => called = MatcherOrder

FirstWriteVectors == {"script", "html", "css"}

C4_Step ==
    (rpc = "match" /\ mi <= Len(MatcherOrder) /\ mi' = mi + 1) =>
        LET v == MatcherOrder[mi]
        IN  \A a \in hits' :
                IF v \in FirstWriteVectors /\ a \in DOMAIN detected
                THEN detected'[a] = detected[a]
                ELSE detected'[a].DetectedBy = v

C8_PartialWheneverMainOk ==
    (rpc = "returned" /\ ~MainFailed) => (ret.map = "detected" /\ MatchersRan)

\* C8, amended: whenever the main page fetch succeeded and the DNS step did not
\* fail, the matchers run and the detections are returned, even if the robots
\* task failed.
C8_PartialWhenMainAndDNSOk ==
    (rpc = "returned" /\ ~MainFailed /\ ~DNSFailed) => (ret.map = "detected" /\ MatchersRan)

\* the robots fetch failed in transport and one of the two DNS lookups failed,
\* and the request still returned a detection made from the response headers
C8_Witness ==
    /\ rpc = "returned"
    /\ ~MainFailed
    /\ getErr["robots"] = "err"
    /\ lookupErr["TXT"] = "err" /\ lookupErr["MX"] = "nil"
    /\ ret.map = "detected"
    /\ "A" \in DOMAIN detected /\ detected["A"].DetectedBy = "header"

----------------------------------------------------------------------------
(* matchWithTimeout: the regex watchdog *)

\* done := make(chan []string, 1)
DoneCap == 1

\* the results of re.FindStringSubmatch: nil when nothing matches
MatchResults == {"nil", "sub"}

\* the callers' test: if submatches != nil
IsMatch(r) == r # "nil"

\* whether the match goroutine's send on done can proceed
SendReady_Unbuffered(i) == wpc = "select" /\ cur = i
SendReady(i) == Len(done[i]) < DoneCap

\* the call: the channel is made, the goroutine started, and the select entered
\* with the timer of time.After armed
WCall ==
    /\ wpc = "idle"
    /\ cur < MaxCalls
    /\ cur' = cur + 1
    /\ done' = [done EXCEPT ![cur + 1] = <<>>]
    /\ gpc' = [gpc EXCEPT ![cur + 1] = "match"]
    /\ timer' = [timer EXCEPT ![cur + 1] = "armed"]
    /\ wpc' = "select"
    /\ UNCHANGED <<gres, wret, via, engineVars, requestVars, certInfoCache,
                   tlsVars, updaterVars, pureVars>>

\* matches := re.FindStringSubmatch(string(body))
WMatch(i) ==
    /\ gpc[i] = "match"
    /\ \E m \in MatchResults : gres' = [gres EXCEPT ![i] = m]
    /\ gpc' = [gpc EXCEPT ![i] = "send"]
    /\ UNCHANGED <<wpc, cur, done, timer, wret, via, engineVars, requestVars,
                   certInfoCache, tlsVars, updaterVars, pureVars>>

\* done <- matches, after which the goroutine ends
WSend(i) ==
    /\ gpc[i] = "send"
    /\ SendReady(i)
    /\ done' = [done EXCEPT ![i] = Append(@, gres[i])]
    /\ gpc' = [gpc EXCEPT ![i] = "end"]
    /\ UNCHANGED <<wpc, cur, gres, timer, wret, via, engineVars, requestVars,
                   certInfoCache, tlsVars, updaterVars, pureVars>>

\* the runtime fires the timer of time.After(timeout)
WTimerFire(i) ==
    /\ timer[i] = "armed"
    /\ timer' = [timer EXCEPT ![i] = "fired"]
    /\ UNCHANGED <<wpc, cur, gpc, gres, done, wret, via, engineVars, requestVars,
                   certInfoCache, tlsVars, updaterVars, pureVars>>

\* case result := <-done: return result
WRecv ==
    /\ wpc = "select"
    /\ done[cur] # <<>>
    /\ wret' = [wret EXCEPT ![cur] = Head(done[cur])]
    /\ done' = [done EXCEPT ![cur] = Tail(@)]
    /\ via' = [via EXCEPT ![cur] = "done"]
    /\ wpc' = "idle"
    /\ UNCHANGED <<cur, gpc, gres, timer, engineVars, requestVars, certInfoCache,
                   tlsVars, updaterVars, pureVars>>

\* case <-time.After(timeout): return nil
WTimeout ==
    /\ wpc = "select"
    /\ timer[cur] = "fired"
    /\ wret' = [wret EXCEPT ![cur] = "nil"]
    /\ via' = [via EXCEPT ![cur] = "timeout"]
    /\ wpc' = "idle"
    /\ UNCHANGED <<cur, gpc, gres, done, timer, engineVars, requestVars,
                   certInfoCache, tlsVars, updaterVars, pureVars>>

InitWatchdog ==
    /\ EngineIdle
    /\ RequestIdle
    /\ certInfoCache = EmptyCache
    /\ TLSIdle
    /\ WatchdogIdle
    /\ UpdaterIdle
    /\ PureIdle

NextWatchdog ==
    \/ WCall
    \/ \E i \in Calls : WMatch(i)
    \/ \E i \in Calls : WSend(i)
    \/ \E i \in Calls : WTimerFire(i)
    \/ WRecv
    \/ WTimeout

SpecWatchdog == InitWatchdog /\ [][NextWatchdog]_vars

\* a runnable goroutine is scheduled, a match of the linear-time engine ends,
\* an armed timer fires, and a select with a ready case returns
FairSpecWatchdog ==
    /\ SpecWatchdog
    /\ \A i \in Calls : WF_vars(WMatch(i)) /\ WF_vars(WSend(i)) /\ WF_vars(WTimerFire(i))
    /\ WF_vars(WRecv \/ WTimeout)

----------------------------------------------------------------------------
(* Properties of matchWithTimeout *)

\* what a call has returned is the goroutine's result, received from done, or
\* nil after the timer fired, which the caller takes as no match; and the
\* goroutine's send is never blocked
C5_Safe ==
    \A i \in Calls :
        /\ via[i] = "done" => (gres[i] \in MatchResults /\ wret[i] = gres[i])
        /\ via[i] = "timeout" => (timer[i] = "fired" /\ wret[i] = "nil" /\ ~IsMatch(wret[i]))
        /\ gpc[i] = "send" => ENABLED WSend(i)
        /\ Len(done[i]) <= 1

\* C5: every call of matchWithTimeout returns, with the result of the match
\* goroutine or, after the timeout fired, with nil (no match); the match
\* goroutine is not cancelled, its send on the done channel never blocks, and it
\* reaches its end also when the caller has gone.
C5_RegexWatchdog ==
    /\ []C5_Safe
    /\ \A i \in Calls : (wpc = "select" /\ cur = i) ~> (via[i] # "none" /\ (wpc = "idle" \/ cur # i))
    /\ \A i \in Calls : (gpc[i] = "match") ~> (gpc[i] = "end")

\* the first call timed out and returned nil; its goroutine then matched, sent
\* its result into the buffer nobody reads, and ended, while a second call runs
C5_Witness ==
    /\ via[1] = "timeout"
    /\ wret[1] = "nil"
    /\ gpc[1] = "end"
    /\ done[1] = <<"sub">>
    /\ cur = 2
    /\ wpc = "select"

----------------------------------------------------------------------------
(* Gets on the default HTTP client of kitsune.New *)

\* k.httpClient.Get of an https URL on a new connection: the server of host
\* presents its certificate
TLSDial ==
    /\ hpc = "idle"
    /\ fetches < MaxFetches
    /\ \E h \in Hosts, c \in Certs(Issuers) : hconn' = [host |-> h, cert |-> c]
    /\ hpc' = "verify"
    /\ UNCHANGED <<fetches, certInfoCache, engineVars, requestVars, watchdogVars,
                   updaterVars, pureVars>>

\* crypto/tls calls VerifyConnection; an error it returns aborts the handshake
\* and with it the Get
TLSVerify ==
    /\ hpc = "verify"
    /\ LET r == VerifyConnection(certInfoCache, hconn.host, hconn.cert)
       IN  /\ certInfoCache' = r.cache
           /\ hpc' = IF r.err THEN "failed" ELSE "request"
    /\ UNCHANGED <<hconn, fetches, engineVars, requestVars, watchdogVars, updaterVars, pureVars>>

\* the request is sent and Get returns
TLSRespond ==
    /\ hpc \in {"request", "failed"}
    /\ fetches' = fetches + 1
    /\ hpc' = "idle"
    /\ UNCHANGED <<hconn, certInfoCache, engineVars, requestVars, watchdogVars,
                   updaterVars, pureVars>>

InitTLS ==
    /\ EngineIdle
    /\ RequestIdle
    /\ certInfoCache = EmptyCache
    /\ TLSIdle
    /\ WatchdogIdle
    /\ UpdaterIdle
    /\ PureIdle

NextTLS ==
    \/ TLSDial
    \/ TLSVerify
    \/ TLSRespond

SpecTLS == InitTLS /\ [][NextTLS]_vars

----------------------------------------------------------------------------
(* Properties of the default HTTP client *)

\* C9: a TLS handshake whose certificate verification fails does not abort the
\* Get and stores no issuer in the host-to-issuer cache: the cache is as it was
\* before the handshake.
C9_VerifyFailureStoresNoIssuer ==
    [][(hpc = "verify" /\ VerifyFails(hconn.cert)) =>
           (hpc' = "request" /\ certInfoCache' = certInfoCache)]_vars

----------------------------------------------------------------------------
(* kitsune-updater: fetch, normalize, lint, write *)

\* the thirteen pattern fields of a Fingerprint
PatternFields ==
    {"css", "cookies", "js", "headers", "html", "scripts", "scriptSrc", "meta",
     "url", "robots", "dom", "dns", "certIssuer"}

\* a raw pattern, by what the regexp package makes of it after cleaning:
\* "good" compiles as it is and with the (?i) prefix, "badci" compiles as it is
\* but not with the prefix, "invalid" does not compile
PatternKinds == {"good", "badci", "invalid"}

UpdaterApps == {"A", "B"}

RawPatterns == [app : UpdaterApps, field : PatternFields, kind : PatternKinds]

RECURSIVE SubsetsUpTo(_, _)
SubsetsUpTo(S, n) ==
    IF n = 0 THEN {{}}
    ELSE LET smaller == SubsetsUpTo(S, n - 1)
         IN  smaller \cup {T \cup {x} : T \in smaller, x \in S}

\* regexp.Compile(trimmedCleanedRegex) succeeds
CompilesPlain(kind) == kind # "invalid"

\* regexp.Compile("(?i)" + regexStr) succeeds
CompilesCI(kind) == kind = "good"

\* normalizePatternValue: a pattern that does not compile is dropped
normalizePatternValue(pat) == CompilesPlain(pat.kind)

\* NormalizeFromBytes: every field of every app is normalized
NormalizeFromBytes(raw) == {pat \in raw : normalizePatternValue(pat)}

\* the fields whose patterns Lint compiles
LintedFields_NoDOM == PatternFields \ {"dom"}
LintedFields == PatternFields

\* lintPattern returns an error
lintPattern(pat) == ~CompilesCI(pat.kind)

\* Lint: the errors collected over all apps and fields
Lint(nd) == {pat \in nd : pat.field \in LintedFields /\ lintPattern(pat)}

\* log.Fatalf
Fatal == upc' = "fatal"

\* mergedApps, categoriesData, err := pipeline.FetchFromXPI()
UFetch ==
    /\ upc = "fetch"
    /\ \/ /\ \E raw \in SubsetsUpTo(RawPatterns, MaxPatterns) : rawApps' = raw
          /\ upc' = "normalize"
       \/ /\ Fatal
          /\ UNCHANGED rawApps
    /\ UNCHANGED <<normalizedData, lintResult, fpFile, catsFile, engineVars,
                   requestVars, certInfoCache, tlsVars, watchdogVars, pureVars>>

\* json.Marshal and pipeline.NormalizeFromBytes
UNormalize ==
    /\ upc = "normalize"
    /\ normalizedData' = NormalizeFromBytes(rawApps)
    /\ upc' = "lint"
    /\ UNCHANGED <<rawApps, lintResult, fpFile, catsFile, engineVars, requestVars,
                   certInfoCache, tlsVars, watchdogVars, pureVars>>

\* if err := pipeline.Lint(normalizedData); err != nil { log.Fatalf(...) }
ULint ==
    /\ upc = "lint"
    /\ IF Lint(normalizedData) # {}
       THEN lintResult' = "err" /\ Fatal
       ELSE lintResult' = "nil" /\ upc' = "writeFp"
    /\ UNCHANGED <<rawApps, normalizedData, fpFile, catsFile, engineVars, requestVars,
                   certInfoCache, tlsVars, watchdogVars, pureVars>>

\* os.WriteFile(finalFingerprintPath, normalizedData, 0644)
UWriteFp ==
    /\ upc = "writeFp"
    /\ \/ /\ fpFile' = [written |-> TRUE, content |-> normalizedData]
          /\ upc' = "writeCats"
       \/ /\ Fatal
          /\ UNCHANGED fpFile
    /\ UNCHANGED <<rawApps, normalizedData, lintResult, catsFile, engineVars,
                   requestVars, certInfoCache, tlsVars, watchdogVars, pureVars>>

\* os.WriteFile(finalCategoriesPath, categoriesData, 0644)
UWriteCats ==
    /\ upc = "writeCats"
    /\ \/ /\ catsFile' = [written |-> TRUE, content |-> {"categories"}]
          /\ upc' = "done"
       \/ /\ Fatal
          /\ UNCHANGED catsFile
    /\ UNCHANGED <<rawApps, normalizedData, lintResult, fpFile, engineVars,
                   requestVars, certInfoCache, tlsVars, watchdogVars, pureVars>>

InitUpdater ==
    /\ EngineIdle
    /\ RequestIdle
    /\ certInfoCache = EmptyCache
    /\ TLSIdle
    /\ WatchdogIdle
    /\ upc = "fetch"
    /\ rawApps = {}
    /\ normalizedData = {}
    /\ lintResult = "unset"
    /\ fpFile = NotWritten
    /\ catsFile = NotWritten
    /\ PureIdle

NextUpdater ==
    \/ UFetch
    \/ UNormalize
    \/ ULint
    \/ UWriteFp
    \/ UWriteCats

SpecUpdater == InitUpdater /\ [][NextUpdater]_vars

----------------------------------------------------------------------------
(* Properties of kitsune-updater *)

\* C10: the fingerprint file is written only after Lint returned no error on
\* the normalized data, and then every pattern in it compiles with the
\* case-insensitive flag; when some pattern of the normalized data does not
\* compile with that flag, no output file is written.
C10_WriteOnlyAfterLint ==
    /\ fpFile.written =>
          /\ lintResult = "nil"
          /\ fpFile.content = normalizedData
          /\ \A pat \in fpFile.content : CompilesCI(pat.kind)
    /\ (upc \notin {"fetch", "normalize"} /\ \E pat \in normalizedData : ~CompilesCI(pat.kind)) =>
          /\ ~fpFile.written
          /\ ~catsFile.written
          /\ upc \in {"lint", "fatal"}
    /\ catsFile.written => fpFile.written

\* the run aborted at Lint: the normalizer had dropped a pattern of app A that
\* does not compile, and kept a DOM pattern of app B that fails only with the
\* flag; nothing was written
C10_Witness ==
    /\ upc = "fatal"
    /\ lintResult = "err"
    /\ \E pat \in rawApps : pat.kind = "invalid" /\ pat.app = "A"
    /\ \E pat \in normalizedData : pat.kind = "badci" /\ pat.field = "dom" /\ pat.app = "B"
    /\ ~fpFile.written /\ ~catsFile.written

----------------------------------------------------------------------------
(* Properties of the robots task *)

\* the error aggregation of the request has run
Aggregated == rpc \in {"check", "cert", "dom", "match", "implies", "engine", "returned"}

----------------------------------------------------------------------------
(* Properties of runAllMatchers *)

\* the order of the vectors as the specification gives it
FixedOrder ==
    <<"url", "robots", "dns", "certIssuer", "header", "cookie",
      "scriptSrc", "meta", "script", "html", "js", "css", "dom">>

PosInFixedOrder(v) == CHOOSE i \in DOMAIN FixedOrder : FixedOrder[i] = v

BodyDerived == {"scriptSrc", "meta", "script", "html", "js", "css", "dom"}

\* C18: the matchers run one after the other in one fixed order, whatever the
\* data; header and cookie matchers have run before any body-derived matcher
\* runs; and the implies engine runs only after all matchers have completed.
C18_FixedMatcherOrder ==
    /\ \A i, j \in DOMAIN called :
          i < j => PosInFixedOrder(called[i]) < PosInFixedOrder(called[j])
    /\ \A j \in DOMAIN called :
          called[j] \in BodyDerived =>
              /\ data.MainResponse # "nil"
              /\ \E i \in 1..(j - 1) : called[i] = "header"
              /\ \E i \in 1..(j - 1) : called[i] = "cookie"
    /\ epc # "idle" =>
          /\ rpc \in {"engine", "returned"}
          /\ mi > Len(FixedOrder)
          /\ {"url", "robots", "dns", "certIssuer"} \subseteq Range(called)
          /\ data.PageData # "nil" => called = FixedOrder

\* all thirteen matchers ran, the DOM matcher last with a hit, and the engine
\* has then added a technology implied by an earlier High detection
C18_Witness ==
    /\ rpc = "engine"
    /\ epc = "done"
    /\ called = FixedOrder
    /\ hits = {"B"}
    /\ {"A", "B", "U"} \subseteq DOMAIN detected
    /\ detected["B"].DetectedBy = "dom"
    /\ detected["A"].DetectedBy = "js"

\* C19: every Detection written by a matcher (it names the matched pattern,
\* which an implied one does not) carries the confidence fixed for
\* its vector: High for headers, cookies, scriptSrc, JS, DNS and cert issuer,
\* Medium for meta, inline script, CSS, URL and robots, Low for HTML and DOM.
C19_FixedConfidencePerVector ==
    /\ \A n \in DOMAIN detected :
          detected[n].MatchedPattern # "" =>
              /\ detected[n].DetectedBy \in Range(FixedOrder)
              /\ detected[n].Confidence = VectorConfidence(detected[n].DetectedBy)
    /\ (rpc = "match" /\ mi > 1) =>
          \A n \in hits : detected[n].Confidence \in Confidences

\* the matchers have returned a Low HTML detection next to a Medium CSS one
C19_Witness ==
    /\ rpc = "implies"
    /\ DOMAIN detected = {"A", "B"}
    /\ detected["A"].DetectedBy = "html" /\ detected["A"].Confidence = ConfidenceLow
    /\ detected["B"].DetectedBy = "css" /\ detected["B"].Confidence = ConfidenceMedium

----------------------------------------------------------------------------
(* Properties of the engine instance across analyses *)

\* C20: no persistence between analyses: what an analysis returns depends only
\* on the database and on the data gathered for that request; so a request
\* none of whose Gets made a TLS handshake, and which therefore gathered no
\* certificate, returns no detection made by the cert issuer matcher.
C20_NoPersistenceBetweenAnalyses ==
    (rpc = "returned" /\ ret.map = "detected" /\ handshakes = 0) =>
        /\ data.CertIssuer = ""
        /\ \A n \in DOMAIN detected :
              detected[n].MatchedPattern # "" => detected[n].DetectedBy # "certIssuer"

----------------------------------------------------------------------------
(* normalizePatternArray and the output of NormalizeFromBytes, run twice *)

MaxArrayLen == 3

\* the raw patterns of the dom field of one app; the "invalid" one is dropped
Selectors == {[app |-> "A", field |-> "dom", kind |-> k] : k \in PatternKinds}

\* the JSON values the field may hold: an array, one string, an object keyed by
\* selector, or nothing
RawValues ==
    {RawValue("array", items, {}) : items \in SeqsUpTo(Selectors, MaxArrayLen)}
    \cup {RawValue("string", <<s>>, {}) : s \in Selectors}
    \cup {RawValue("object", <<>>, keys) : keys \in SUBSET Selectors}
    \cup {NilValue}

\* normalizePatternArray: the slices one call may return. An array keeps its
\* order; the keys of an object are ranged over in the order the map gives.
normalizePatternArray(v) ==
    CASE v.kind = "array" -> {SelectSeq(v.items, normalizePatternValue)}
      [] v.kind = "string" -> {SelectSeq(v.items, normalizePatternValue)}
      [] v.kind = "object" ->
            {SelectSeq(o, normalizePatternValue) : o \in Orders(v.keys)}
      [] OTHER -> {<<>>}

\* json.MarshalIndent of a slice: the elements between brackets, in slice order
RECURSIVE MarshalElems(_)
MarshalElems(arr) ==
    IF arr = <<>> THEN <<>>
    ELSE IF Len(arr) = 1 THEN <<arr[1].kind>>
    ELSE <<arr[1].kind, ",">> \o MarshalElems(Tail(arr))

MarshalIndent(arr) == <<"[">> \o MarshalElems(arr) \o <<"]">>

\* one run of NormalizeFromBytes on the input
NormalizeRun(r) ==
    /\ ~nout[r].done
    /\ \E arr \in normalizePatternArray(nraw) :
          nout' = [nout EXCEPT ![r] = [done |-> TRUE, arr |-> MarshalIndent(arr)]]
    /\ UNCHANGED <<nraw, lookupVars, domVars, moreVars, engineVars, requestVars,
                   certInfoCache,
                   tlsVars, watchdogVars, updaterVars>>

InitNormalize ==
    /\ EngineIdle
    /\ RequestIdle
    /\ certInfoCache = EmptyCache
    /\ TLSIdle
    /\ WatchdogIdle
    /\ UpdaterIdle
    /\ LookupIdle
    /\ DomIdle
    /\ MoreIdle
    /\ nraw \in RawValues
    /\ nout = [r \in Runs |-> NotRun]

NextNormalize == \E r \in Runs : NormalizeRun(r)

SpecNormalize == InitNormalize /\ [][NextNormalize]_vars

\* C11: two runs of the normalization pipeline on the same input produce
\* byte-identical output, the order of the elements of every pattern array
\* included.
C11_ByteIdenticalRuns ==
    (nout[1].done /\ nout[2].done) => nout[1].arr = nout[2].arr

----------------------------------------------------------------------------
(* The name-keyed matchers: headers, cookies, meta, js *)

MaxItems == 2

\* strings.ToLower on the names of the model
ToLower(s) ==
    CASE s \in {"X-Tech", "X-TECH"} -> "x-tech"
      [] s = "Set-Cookie" -> "set-cookie"
      [] s = "Other" -> "other"
      [] OTHER -> s

\* the key under which net/http stores a header read from the wire
CanonicalMIMEHeaderKey(s) ==
    CASE s \in {"x-tech", "X-Tech", "X-TECH"} -> "X-Tech"
      [] s \in {"other", "Other"} -> "Other"
      [] s \in {"set-cookie", "Set-Cookie"} -> "Set-Cookie"
      [] OTHER -> s

\* the spellings of a name in the response
PageNames == {"x-tech", "X-Tech", "X-TECH", "other"}

\* the spellings of a key in fingerprints_data.json
DBKeys == {"x-tech", "X-Tech"}

\* a text either matches the pattern of the apps or does not
Texts == {"hit", "miss"}

Item(kind, name, value, ok) == [kind |-> kind, name |-> name, value |-> value, ok |-> ok]

\* a header line that is not a Set-Cookie line
OtherHeaderLine == Item("header", "X-Tech", "hit", TRUE)

\* the items of one kind: header lines, meta tags, or Set-Cookie lines (a
\* malformed one has no cookie name, only its raw text) next to another header
ItemsOf(kind) ==
    {Item(kind, n, v, TRUE) : n \in PageNames, v \in Texts}
    \cup (IF kind = "cookie"
          THEN {Item(kind, "", v, FALSE) : v \in Texts} \cup {OtherHeaderLine}
          ELSE {})

\* the patterns of one app that matter to items of that kind
PatternsOf(kind) ==
    {NoPattern}
    \cup (IF kind = "header" THEN [field : {"headers"}, key : DBKeys] ELSE {})
    \cup (IF kind = "cookie"
          THEN [field : {"cookies"}, key : DBKeys]
               \cup [field : {"headers"}, key : {"Set-Cookie", "x-tech"}]
          ELSE {})
    \cup (IF kind = "meta" THEN [field : {"meta"}, key : DBKeys] ELSE {})
    \cup (IF kind = "js" THEN [field : {"js"}, key : DBKeys] ELSE {})

\* BuildEfficientMatcher: the PatternInfo list stored under a lower-cased key,
\* in the order the apps were ranged over
BuildEfficientMatcher(db, order, field, key) ==
    LET Stored(a) == db[a].field = field /\ ToLower(db[a].key) = key
    IN  SelectSeq(order, Stored)

\* matchWithTimeout returns submatches for this text
Matches(text) == text = "hit"

\* the key of a header line in http.Header
HeaderKey(it) ==
    IF it.kind = "cookie" THEN CanonicalMIMEHeaderKey("set-cookie")
    ELSE CanonicalMIMEHeaderKey(it.name)

\* http.Header of the response: canonical key -> the lines received, in order
ReadHeader(items) ==
    LET lines == SelectSeq(items, LAMBDA it : it.kind \in {"header", "cookie"})
    IN  [k \in {HeaderKey(lines[i]) : i \in DOMAIN lines} |->
            SelectSeq(lines, LAMBDA it : HeaderKey(it) = k)]

\* pd.MetaContent: the name as the page spells it -> the contents, in order
MetaContent(items) ==
    LET metas == SelectSeq(items, LAMBDA it : it.kind = "meta")
    IN  [k \in {metas[i].name : i \in DOMAIN metas} |->
            SelectSeq(metas, LAMBDA it : it.name = k)]

\* matchHeaders: every value of every header against the patterns under the
\* lower-cased header key
HeadersMatched(db, order, headers) ==
    {a \in KnownApps :
        \E k \in DOMAIN headers :
            /\ a \in Range(BuildEfficientMatcher(db, order, "headers", ToLower(k)))
            /\ \E i \in DOMAIN headers[k] : Matches(headers[k][i].value)}

\* http.ParseSetCookie of a raw line
ParseSetCookie(raw) == [err |-> ~raw.ok, Name |-> raw.name, Value |-> raw.value]

\* the parsedCookies map after the first loop of matchCookies
RECURSIVE parsedCookies(_)
parsedCookies(setCookieHeaders) ==
    IF setCookieHeaders = <<>> THEN EmptyMap
    ELSE LET n == Len(setCookieHeaders)
             prev == parsedCookies(SubSeq(setCookieHeaders, 1, n - 1))
             cookie == ParseSetCookie(setCookieHeaders[n])
         IN  IF ~cookie.err /\ cookie.Name # ""
             THEN MapPut(prev, ToLower(cookie.Name), cookie.Value)
             ELSE prev

\* a first loop that stops at the first line ParseSetCookie rejects
RECURSIVE parsedCookies_Stop(_)
parsedCookies_Stop(setCookieHeaders) ==
    IF setCookieHeaders = <<>> THEN EmptyMap
    ELSE LET cookie == ParseSetCookie(Head(setCookieHeaders))
         IN  IF cookie.err THEN EmptyMap
             ELSE LET rest == parsedCookies_Stop(Tail(setCookieHeaders))
                      name == ToLower(cookie.Name)
                  IN  IF name \in DOMAIN rest THEN rest ELSE MapPut(rest, name, cookie.Value)

\* the second loop of matchCookies: per cookie, the first pattern that matches
MatchParsed(db, order, parsed) ==
    {a \in KnownApps :
        \E k \in DOMAIN parsed :
            LET patterns == BuildEfficientMatcher(db, order, "cookies", k)
            IN  /\ Matches(parsed[k])
                /\ patterns # <<>>
                /\ patterns[1] = a}

CookiesMatched_StopAtMalformed(db, order, headers) ==
    IF "Set-Cookie" \in DOMAIN headers
    THEN MatchParsed(db, order, parsedCookies_Stop(headers["Set-Cookie"]))
    ELSE {}

\* matchCookies: the apps it detects
CookiesMatched(db, order, headers) ==
    IF "Set-Cookie" \in DOMAIN headers
    THEN MatchParsed(db, order, parsedCookies(headers["Set-Cookie"]))
    ELSE {}

MetaMatched_RawKey(db, order, meta) ==
    {a \in KnownApps :
        \E k \in DOMAIN meta :
            /\ a \in Range(BuildEfficientMatcher(db, order, "meta", k))
            /\ \E i \in DOMAIN meta[k] : Matches(meta[k][i].value)}

\* matchMeta: every content of every meta name against the patterns under the
\* lower-cased name
MetaMatched(db, order, meta) ==
    {a \in KnownApps :
        \E k \in DOMAIN meta :
            /\ a \in Range(BuildEfficientMatcher(db, order, "meta", ToLower(k)))
            /\ \E i \in DOMAIN meta[k] : Matches(meta[k][i].value)}

\* the property assignments jsPropertyExtractor finds in the inline scripts
JSAssignments(items) == SelectSeq(items, LAMBDA it : it.kind = "js")

\* matcher.JSPatterns[jsvar]: the key is stored as the database spells it
JSPatterns(db, order, jsKey) ==
    LET Stored(a) == db[a].field = "js" /\ db[a].key = jsKey
    IN  SelectSeq(order, Stored)

\* matchJS: per assignment, the first pattern under its path that matches
JSMatched(db, order, assignments) ==
    IF \A a \in KnownApps : db[a].field # "js" THEN {}
    ELSE {a \in KnownApps :
            \E i \in DOMAIN assignments :
                LET patterns == JSPatterns(db, order, assignments[i].name)
                IN  /\ Matches(assignments[i].value)
                    /\ patterns # <<>>
                    /\ patterns[1] = a}

\* the four name-keyed matchers on one response
MatchNamed(db, order, items) ==
    [done |-> TRUE,
     header |-> HeadersMatched(db, order, ReadHeader(items)),
     cookie |-> CookiesMatched(db, order, ReadHeader(items)),
     meta |-> MetaMatched(db, order, MetaContent(items)),
     js |-> JSMatched(db, order, JSAssignments(items))]

\* the same database and response with every name in lower case
LowerDB(db) == [a \in DOMAIN db |-> [db[a] EXCEPT !.key = ToLower(@)]]

LowerItems(items) == [i \in DOMAIN items |-> [items[i] EXCEPT !.name = ToLower(@)]]

\* the same response without the Set-Cookie lines ParseSetCookie rejects
WellFormed(items) == SelectSeq(items, LAMBDA it : it.ok)

\* the matchers run on the response as given
MatchGiven ==
    /\ lvec # None
    /\ ~lres["given"].done
    /\ lres' = [lres EXCEPT !["given"] = MatchNamed(ldb, lorder, litems)]
    /\ UNCHANGED <<lvec, ldb, lorder, litems, normVars, domVars, moreVars, engineVars,
                   requestVars,
                   certInfoCache, tlsVars, watchdogVars, updaterVars>>

\* the matchers run on the lower-case spelling
MatchLower ==
    /\ lvec # None
    /\ ~lres["lower"].done
    /\ lres' = [lres EXCEPT !["lower"] = MatchNamed(LowerDB(ldb), lorder, LowerItems(litems))]
    /\ UNCHANGED <<lvec, ldb, lorder, litems, normVars, domVars, moreVars, engineVars,
                   requestVars,
                   certInfoCache, tlsVars, watchdogVars, updaterVars>>

\* the matchers run on the response without its malformed Set-Cookie lines
MatchClean ==
    /\ lvec # None
    /\ ~lres["clean"].done
    /\ lres' = [lres EXCEPT !["clean"] = MatchNamed(ldb, lorder, WellFormed(litems))]
    /\ UNCHANGED <<lvec, ldb, lorder, litems, normVars, domVars, moreVars, engineVars,
                   requestVars,
                   certInfoCache, tlsVars, watchdogVars, updaterVars>>

InitLookup ==
    /\ EngineIdle
    /\ RequestIdle
    /\ certInfoCache = EmptyCache
    /\ TLSIdle
    /\ WatchdogIdle
    /\ UpdaterIdle
    /\ NormIdle
    /\ DomIdle
    /\ MoreIdle
    /\ lvec \in {"header", "cookie", "meta", "js"}
    /\ ldb \in [KnownApps -> PatternsOf(lvec)]
    /\ lorder \in Orders(KnownApps)
    /\ litems \in SeqsUpTo(ItemsOf(lvec), MaxItems)
    /\ lres = [r \in LookupRuns |-> NotMatched]

NextLookup ==
    \/ MatchGiven
    \/ MatchLower
    \/ MatchClean

SpecLookup == InitLookup /\ [][NextLookup]_vars

\* the technologies a run detected
AppsOf(r) == lres[r].header \cup lres[r].cookie \cup lres[r].meta \cup lres[r].js

\* C14: changing only the letter case of header names, cookie names and meta
\* names, in the response or in the database, does not change which
\* technologies each of the three matchers detects.
C14_CaseInsensitiveNames ==
    (lres["given"].done /\ lres["lower"].done) =>
        /\ lres["given"].header = lres["lower"].header
        /\ lres["given"].cookie = lres["lower"].cookie
        /\ lres["given"].meta = lres["lower"].meta

\* a meta tag spelled in capitals against a database key in mixed case
C14_Witness ==
    /\ lvec = "meta"
    /\ ldb["A"] = [field |-> "meta", key |-> "X-Tech"]
    /\ litems = <<Item("meta", "X-TECH", "hit", TRUE)>>
    /\ lres["given"].done
    /\ lres["lower"].done
    /\ lres["given"].meta = {"A"}

\* the malformed Set-Cookie lines of the response whose raw text a pattern matches
MalformedHits == {i \in DOMAIN litems : ~litems[i].ok /\ Matches(litems[i].value)}

\* C15 (as amended): the cookie matcher skips a malformed Set-Cookie header, so
\* the cookie detections are those of the response without it, and no header
\* or meta detection of that response is lost; the header matcher still
\* matches the raw text of the malformed header against the header patterns
\* keyed set-cookie, which is the only detection it can add.
C15_MalformedSkippedByCookieParser ==
    (lres["given"].done /\ lres["clean"].done) =>
        /\ lres["given"].cookie = lres["clean"].cookie
        /\ lres["given"].meta = lres["clean"].meta
        /\ lres["clean"].header \subseteq lres["given"].header
        /\ \A a \in lres["given"].header \ lres["clean"].header :
              /\ ldb[a] = [field |-> "headers", key |-> "Set-Cookie"]
              /\ MalformedHits # {}

\* a malformed line before a well-formed cookie and another header: both are
\* still detected
C15_Witness ==
    /\ lvec = "cookie"
    /\ ldb = [a \in KnownApps |-> IF a = "A" THEN [field |-> "cookies", key |-> "x-tech"]
                                   ELSE [field |-> "headers", key |-> "x-tech"]]
    /\ Len(litems) = MaxItems
    /\ ~litems[1].ok
    /\ lres["given"].done
    /\ lres["clean"].done
    /\ lres["given"].cookie \cup lres["given"].header # {}

\* C15 (as stated): a malformed Set-Cookie header causes no detection, so the
\* technologies detected are those of the response without it.
C15_MalformedSetCookieIgnored ==
    (lres["given"].done /\ lres["clean"].done) => AppsOf("given") = AppsOf("clean")

----------------------------------------------------------------------------
(* collectDataFromDOM, matchScript and matchHTML on a parsed document *)

MaxNodes == 2

\* the texts a node may hold, as sequences of characters
NodeTexts == {<<"s">>, <<"g">>, <<"s", "g">>}

\* the script and html pattern of the model is the literal "sg"
Contains(text) ==
    \E i \in 1..(Len(text) - 1) : text[i] = "s" /\ text[i + 1] = "g"

Node(tag, src, text) == [tag |-> tag, src |-> src, text |-> text]

\* the children of body: text nodes, inline scripts, scripts with src, styles,
\* comments, and elements that hold text of their own
Nodes ==
    {Node(tag, FALSE, t) : tag \in {"#text", "script", "style", "#comment", "p"},
                           t \in NodeTexts}
    \cup {Node("script", TRUE, t) : t \in NodeTexts}

Documents == SeqsUpTo(Nodes, MaxNodes)

\* the texts of a sequence of nodes, in order
TextsOf(nodes) == [i \in DOMAIN nodes |-> nodes[i].text]

RECURSIVE Concat(_)
Concat(texts) ==
    IF texts = <<>> THEN <<>> ELSE Head(texts) \o Concat(Tail(texts))

\* doc.Find("script") in place of doc.Find("script:not([src])")
InlineScripts_AnyScript(doc) ==
    TextsOf(SelectSeq(doc, LAMBDA n : n.tag = "script"))

\* doc.Find("script:not([src])"), s.Text() of each
InlineScripts(doc) ==
    TextsOf(SelectSeq(doc, LAMBDA n : n.tag = "script" /\ ~n.src))

\* the Text() of body in place of its "#text" children: the text of every
\* descendant, comments left out
VisibleText_BodyText(doc) ==
    Concat(TextsOf(SelectSeq(doc, LAMBDA n : n.tag # "#comment")))

\* the "#text" children of body, written to textBuf in order
VisibleText(doc) ==
    Concat(TextsOf(SelectSeq(doc, LAMBDA n : n.tag = "#text")))

collectDataFromDOM(doc) ==
    [collected |-> TRUE,
     InlineScripts |-> InlineScripts(doc),
     ScriptSrcs |-> TextsOf(SelectSeq(doc, LAMBDA n : n.tag = "script" /\ n.src)),
     InlineCSS |-> TextsOf(SelectSeq(doc, LAMBDA n : n.tag = "style")),
     VisibleText |-> VisibleText(doc)]

\* matcher.ScriptPatterns and matcher.HTMLPatterns: the apps that hold one
ScriptPatterns == {"A"}

HTMLPatterns == {"A", "B"}

\* matchScript: the apps it adds
ScriptMatched(pageData, det) ==
    {a \in ScriptPatterns \ DOMAIN det :
        \E i \in DOMAIN pageData.InlineScripts : Contains(pageData.InlineScripts[i])}

\* matchHTML: the apps it adds
HTMLMatched(pageData, det) ==
    {a \in HTMLPatterns \ DOMAIN det : Contains(pageData.VisibleText)}

\* the detected map with the apps of S recorded as detected by the vector
Record(det, S, by) ==
    [a \in (DOMAIN det) \cup S |-> IF a \in S THEN by ELSE det[a]]

DomCollect ==
    /\ dpc = "collect"
    /\ dpage' = collectDataFromDOM(ddoc)
    /\ dpc' = "script"
    /\ UNCHANGED <<ddoc, ddet, normVars, lookupVars, moreVars, engineVars,
                   requestVars,
                   certInfoCache, tlsVars, watchdogVars, updaterVars>>

DomMatchScript ==
    /\ dpc = "script"
    /\ ddet' = Record(ddet, ScriptMatched(dpage, ddet), "script")
    /\ dpc' = "html"
    /\ UNCHANGED <<ddoc, dpage, normVars, lookupVars, moreVars, engineVars,
                   requestVars,
                   certInfoCache, tlsVars, watchdogVars, updaterVars>>

DomMatchHTML ==
    /\ dpc = "html"
    /\ ddet' = Record(ddet, HTMLMatched(dpage, ddet), "html")
    /\ dpc' = "done"
    /\ UNCHANGED <<ddoc, dpage, normVars, lookupVars, moreVars, engineVars,
                   requestVars,
                   certInfoCache, tlsVars, watchdogVars, updaterVars>>

InitDom ==
    /\ EngineIdle
    /\ RequestIdle
    /\ certInfoCache = EmptyCache
    /\ TLSIdle
    /\ WatchdogIdle
    /\ UpdaterIdle
    /\ NormIdle
    /\ LookupIdle
    /\ MoreIdle
    /\ ddoc \in Documents
    /\ dpage = NoPageData
    /\ ddet \in {[a \in S |-> "header"] : S \in SUBSET KnownApps}
    /\ dpc = "collect"

NextDom ==
    \/ DomCollect
    \/ DomMatchScript
    \/ DomMatchHTML

SpecDom == InitDom /\ [][NextDom]_vars

\* the apps recorded as detected by the vector
DetectedVia(by) == {a \in DOMAIN ddet : ddet[a] = by}

\* the document with only its script elements without src
OnlyInlineScripts(doc) == SelectSeq(doc, LAMBDA n : n.tag = "script" /\ ~n.src)

\* the document without its script and style elements
WithoutScriptStyle(doc) == SelectSeq(doc, LAMBDA n : n.tag \notin {"script", "style"})

\* C16: a script pattern is matched only against the text of script elements
\* without src: a script detection needs one such element whose own text
\* matches, and is still made when everything else (comments, text outside
\* scripts, scripts with src) is removed from the document.
C16_ScriptContextIsolation ==
    DetectedVia("script") # {} =>
        /\ \E i \in DOMAIN ddoc :
              /\ ddoc[i].tag = "script"
              /\ ~ddoc[i].src
              /\ Contains(ddoc[i].text)
        /\ ScriptMatched(collectDataFromDOM(OnlyInlineScripts(ddoc)), EmptyMap) # {}

\* the text is in a comment and in an inline script: detection by script
C16_Witness ==
    /\ dpc = "done"
    /\ Len(ddoc) = 2
    /\ ddoc[1] = Node("#comment", FALSE, <<"s", "g">>)
    /\ ddoc[2] = Node("script", FALSE, <<"s", "g">>)
    /\ DetectedVia("script") = {"A"}

\* C17: html patterns are matched only against the visible body text: a
\* detection by html needs the direct text of body to match, and is still made
\* when all script and style content is removed from the document.
C17_HTMLVisibleTextOnly ==
    DetectedVia("html") # {} =>
        /\ Contains(Concat(TextsOf(SelectSeq(ddoc, LAMBDA n : n.tag = "#text"))))
        /\ HTMLMatched(collectDataFromDOM(WithoutScriptStyle(ddoc)), EmptyMap) # {}

\* the visible text matches and a script or style element follows it
C17_Witness ==
    /\ dpc = "done"
    /\ Len(ddoc) = 2
    /\ ddoc[1] = Node("#text", FALSE, <<"s", "g">>)
    /\ ddoc[2].tag \in {"script", "style"}
    /\ DetectedVia("html") = {"A", "B"}

\* -- all at rest but one of the further components
OldIdle ==
    /\ EngineIdle
    /\ RequestIdle
    /\ certInfoCache = EmptyCache
    /\ TLSIdle
    /\ WatchdogIdle
    /\ UpdaterIdle
    /\ NormIdle
    /\ LookupIdle
    /\ DomIdle

IdleExceptGate ==
    /\ OldIdle
    /\ FetcherIdle
    /\ VersionIdle
    /\ KeysIdle
    /\ CleanIdle
    /\ CtorIdle

IdleExceptFetcher ==
    /\ OldIdle
    /\ GateIdle
    /\ VersionIdle
    /\ KeysIdle
    /\ CleanIdle
    /\ CtorIdle

IdleExceptVersion ==
    /\ OldIdle
    /\ GateIdle
    /\ FetcherIdle
    /\ KeysIdle
    /\ CleanIdle
    /\ CtorIdle

IdleExceptKeys ==
    /\ OldIdle
    /\ GateIdle
    /\ FetcherIdle
    /\ VersionIdle
    /\ CleanIdle
    /\ CtorIdle

IdleExceptClean ==
    /\ OldIdle
    /\ GateIdle
    /\ FetcherIdle
    /\ VersionIdle
    /\ KeysIdle
    /\ CtorIdle

IdleExceptCtor ==
    /\ OldIdle
    /\ GateIdle
    /\ FetcherIdle
    /\ VersionIdle
    /\ KeysIdle
    /\ CleanIdle
\* -- end of all at rest but one of the further components

----------------------------------------------------------------------------
(* The DOM gates of BuildEfficientMatcher, and matchDOM *)

MaxSelectors == 2

\* the CSS selectors a dom field may hold
CSSSelectors == {"div", "article", "div.custom-wp", "*.custom-wp", "#main"}

\* domTagDenylist
domTagDenylist ==
    {"a", "body", "div", "span", "p", "script", "style", "link", "head", "title",
     "footer", "header", "main"}

\* strings.ContainsAny(selector, ".#[")
ContainsAny(selector) == selector \in {"div.custom-wp", "*.custom-wp", "#main"}

\* regexp.Compile(selector) returns no error: a leading * is a repetition
\* operator without an argument
CompilesAsRegexp(selector) == selector # "*.custom-wp"

\* gate 3: the selector must compile as a regular expression
Gate3(selector) == CompilesAsRegexp(selector)

\* the DOM loop of BuildEfficientMatcher for one app: the PatternInfo it appends
BuildDOMPatterns(appName, dom) ==
    LET Kept(selector) ==
            /\ selector \notin domTagDenylist
            /\ ContainsAny(selector)
            /\ Gate3(selector)
        kept == SelectSeq(dom, Kept)
    IN  [i \in DOMAIN kept |-> [AppName |-> appName, Pattern |-> kept[i]]]

\* the elements a document may hold
Elements == {"div class=custom-wp", "article id=main"}

\* doc.Find(selector).Length() > 0
Find(elems, selector) ==
    CASE selector = "div" -> "div class=custom-wp" \in elems
      [] selector = "article" -> "article id=main" \in elems
      [] selector \in {"div.custom-wp", "*.custom-wp"} -> "div class=custom-wp" \in elems
      [] selector = "#main" -> "article id=main" \in elems
      [] OTHER -> FALSE

\* matchDOM: the detected map after the patterns from index i on were tried
RECURSIVE matchDOMFrom(_, _, _, _)
matchDOMFrom(patterns, elems, det, i) ==
    IF i > Len(patterns) THEN det
    ELSE LET pi == patterns[i]
             next == IF Find(elems, pi.Pattern)
                     THEN MapPut(det, pi.AppName,
                                 [Detection("", "dom", ConfidenceLow)
                                    EXCEPT !.MatchedPattern = pi.Pattern])
                     ELSE det
         IN  matchDOMFrom(patterns, elems, next, i + 1)

\* BuildEfficientMatcher ranges over k.apps in some order
GateBuild ==
    /\ bpc = "build"
    /\ \E order \in Orders(KnownApps) :
          DOMPatterns' = BuildDOMPatterns(order[1], domSelectors[order[1]])
                         \o BuildDOMPatterns(order[2], domSelectors[order[2]])
    /\ bpc' = "match"
    /\ UNCHANGED <<exceptGateVars, domSelectors, docElems, domDetected>>

GateMatchDOM ==
    /\ bpc = "match"
    /\ domDetected' = matchDOMFrom(DOMPatterns, docElems, domDetected, 1)
    /\ bpc' = "done"
    /\ UNCHANGED <<exceptGateVars, domSelectors, DOMPatterns, docElems>>

InitGate ==
    /\ IdleExceptGate
    /\ domSelectors \in [KnownApps -> SeqsUpTo(CSSSelectors, MaxSelectors)]
    /\ DOMPatterns = <<>>
    /\ docElems \in SUBSET Elements
    /\ domDetected = EmptyMap
    /\ bpc = "build"

NextGate ==
    \/ GateBuild
    \/ GateMatchDOM

SpecGate == InitGate /\ [][NextGate]_vars

\* the selectors that pass the specificity gate
PassesGate(selector) == selector \notin domTagDenylist /\ ContainsAny(selector)

\* C21: after BuildEfficientMatcher no DOM pattern of the matcher is a denied
\* generic tag or lacks a specificity character, and every selector of an app
\* that passes the gate and matches an element of the document yields a
\* detection of that app with confidence Low.
C21_DOMSpecificityGate ==
    /\ bpc # "build" =>
          \A i \in DOMAIN DOMPatterns : PassesGate(DOMPatterns[i].Pattern)
    /\ bpc = "done" =>
          \A a \in KnownApps : \A i \in DOMAIN domSelectors[a] :
              (PassesGate(domSelectors[a][i]) /\ Find(docElems, domSelectors[a][i])) =>
                  /\ a \in DOMAIN domDetected
                  /\ domDetected[a].Confidence = ConfidenceLow

----------------------------------------------------------------------------
(* Properties of the patterns registered under one name *)

\* the cookies of the response as matchCookies parses them
CookiesOf(items) ==
    LET headers == ReadHeader(items)
    IN  IF "Set-Cookie" \in DOMAIN headers THEN parsedCookies(headers["Set-Cookie"])
        ELSE EmptyMap

\* C22: when several technologies have a cookie pattern under the same cookie
\* name, or a JS pattern under the same property path, and each pattern
\* matches the value, every one of them is recorded as detected.
C22_EveryPatternUnderNameRuns ==
    lres["given"].done =>
        \A a \in KnownApps :
            /\ (/\ ldb[a].field = "cookies"
                /\ ToLower(ldb[a].key) \in DOMAIN CookiesOf(litems)
                /\ Matches(CookiesOf(litems)[ToLower(ldb[a].key)]))
                  => a \in lres["given"].cookie
            /\ (/\ ldb[a].field = "js"
                /\ \E i \in DOMAIN litems :
                      /\ litems[i].kind = "js"
                      /\ litems[i].name = ldb[a].key
                      /\ Matches(litems[i].value))
                  => a \in lres["given"].js

----------------------------------------------------------------------------
(* analyzeWithPipeline: the AssetFetcher, its consumer and its workers *)

MaxURLs == 2

\* make(chan AssetURL, 50)
UrlChanCap == 50

\* the DNS and the robots goroutine
MaxOthers == 2

AssetURLs == 1..MaxURLs

\* the position of the worker of u ("none" before the consumer started it)
WorkerAt(u) == IF u \in DOMAIN wpos THEN wpos[u] ELSE "none"

\* streamingParseHTML finds a script src and calls AddURL: the send succeeds
\* while the buffer has room
AddURL ==
    /\ ppc = "parse"
    /\ added < MaxURLs
    /\ Len(urlChan) < UrlChanCap
    /\ urlChan' = Append(urlChan, added + 1)
    /\ added' = added + 1
    /\ UNCHANGED <<exceptFetcherVars, ppc, urlClosed, pipeWg, cpc, assetURL, wpos,
                   jsContent, lateWrites, others>>

\* the parse is over; wg.Add(1) and go func() for the DNS and robots goroutines
SpawnOthers ==
    /\ ppc = "parse"
    /\ \E n \in 0..MaxOthers :
          /\ others' = n
          /\ pipeWg' = pipeWg + n
    /\ ppc' = "stop"
    /\ UNCHANGED <<exceptFetcherVars, added, urlChan, urlClosed, cpc, assetURL, wpos,
                   jsContent, lateWrites>>

\* a DNS or robots goroutine returns: defer wg.Done()
OtherDone ==
    /\ others > 0
    /\ others' = others - 1
    /\ pipeWg' = pipeWg - 1
    /\ UNCHANGED <<exceptFetcherVars, ppc, added, urlChan, urlClosed, cpc, assetURL,
                   wpos, jsContent, lateWrites>>

\* assetFetcher.Stop(): close(af.urlChan)
Stop ==
    /\ ppc = "stop"
    /\ urlClosed' = TRUE
    /\ ppc' = "wait"
    /\ UNCHANGED <<exceptFetcherVars, added, urlChan, pipeWg, cpc, assetURL, wpos,
                   jsContent, lateWrites, others>>

\* wg.Wait() returns when the counter is zero
PipeWait ==
    /\ ppc = "wait"
    /\ pipeWg = 0
    /\ ppc' = "read"
    /\ UNCHANGED <<exceptFetcherVars, added, urlChan, urlClosed, pipeWg, cpc, assetURL,
                   wpos, jsContent, lateWrites, others>>

\* the request goroutine ranges over jsContent and cssContent without the mutex
PipeRead ==
    /\ ppc = "read"
    /\ ppc' = "done"
    /\ UNCHANGED <<exceptFetcherVars, added, urlChan, urlClosed, pipeWg, cpc, assetURL,
                   wpos, jsContent, lateWrites, others>>

\* the consumer: for assetURL := range af.urlChan
ConsumerRecv ==
    /\ cpc = "range"
    /\ \/ /\ Len(urlChan) > 0
          /\ assetURL' = Head(urlChan)
          /\ urlChan' = Tail(urlChan)
          /\ cpc' = "add"
       \/ /\ Len(urlChan) = 0
          /\ urlClosed
          /\ cpc' = "exit"
          /\ UNCHANGED <<assetURL, urlChan>>
    /\ UNCHANGED <<exceptFetcherVars, ppc, added, urlClosed, pipeWg, wpos, jsContent,
                   lateWrites, others>>

\* the consumer: af.wg.Add(1); go af.processURL(assetURL)
ConsumerAdd ==
    /\ cpc = "add"
    /\ pipeWg' = pipeWg + 1
    /\ wpos' = MapPut(wpos, assetURL, "fetch")
    /\ cpc' = "range"
    /\ UNCHANGED <<exceptFetcherVars, ppc, added, urlChan, urlClosed, assetURL,
                   jsContent, lateWrites, others>>

\* processURL up to the response: an error, a cancelled context or another
\* content type skip the store (the semaphore of 10 never blocks MaxURLs workers)
WorkerFetch(u) ==
    /\ WorkerAt(u) = "fetch"
    /\ \E next \in {"store", "return"} : wpos' = [wpos EXCEPT ![u] = next]
    /\ UNCHANGED <<exceptFetcherVars, ppc, added, urlChan, urlClosed, pipeWg, cpc,
                   assetURL, jsContent, lateWrites, others>>

\* handleScriptResponse: (*af.jsContent)[originalURL] = string(content), under
\* af.mutex
WorkerStore(u) ==
    /\ WorkerAt(u) = "store"
    /\ jsContent' = jsContent \cup {u}
    /\ lateWrites' = IF ppc \in {"read", "done"} THEN lateWrites \cup {u} ELSE lateWrites
    /\ wpos' = [wpos EXCEPT ![u] = "return"]
    /\ UNCHANGED <<exceptFetcherVars, ppc, added, urlChan, urlClosed, pipeWg, cpc,
                   assetURL, others>>

\* processURL returns: defer af.wg.Done()
WorkerDone(u) ==
    /\ WorkerAt(u) = "return"
    /\ pipeWg' = pipeWg - 1
    /\ wpos' = [wpos EXCEPT ![u] = "done"]
    /\ UNCHANGED <<exceptFetcherVars, ppc, added, urlChan, urlClosed, cpc, assetURL,
                   jsContent, lateWrites, others>>

\* after NewAssetFetcher and Start
InitFetcher ==
    /\ IdleExceptFetcher
    /\ ppc = "parse"
    /\ added = 0
    /\ urlChan = <<>>
    /\ urlClosed = FALSE
    /\ pipeWg = 0
    /\ cpc = "range"
    /\ assetURL = 0
    /\ wpos = [u \in {} |-> "none"]
    /\ jsContent = {}
    /\ lateWrites = {}
    /\ others = 0

NextFetcher ==
    \/ AddURL
    \/ SpawnOthers
    \/ OtherDone
    \/ Stop
    \/ PipeWait
    \/ PipeRead
    \/ ConsumerRecv
    \/ ConsumerAdd
    \/ \E u \in AssetURLs : WorkerFetch(u)
    \/ \E u \in AssetURLs : WorkerStore(u)
    \/ \E u \in AssetURLs : WorkerDone(u)

SpecFetcher == InitFetcher /\ [][NextFetcher]_vars

\* C23: when wg.Wait() has returned after Stop, every asset URL accepted by
\* AddURL has been fully handled (its worker has called wg.Done), and no worker
\* writes to jsContent while or after the request goroutine reads it.
C23_AssetsHandledBeforeRead ==
    ppc \in {"read", "done"} =>
        /\ \A u \in 1..added : WorkerAt(u) = "done"
        /\ lateWrites = {}

----------------------------------------------------------------------------
(* Properties of the technologies the implies engine adds *)

\* the names the engine has added so far
Added == DOMAIN detected \ DOMAIN detected0

\* a step of the engine that takes an added name from the queue records nothing
C24_Step ==
    (epc = "loop" /\ Len(queue) > 0 /\ Head(queue) \in Added) => detected' = detected

C24_Done ==
    /\ \A n \in Added : detected[n].Confidence = ConfidenceMedium
    /\ epc = "done" =>
          Added = UNION {ImpliesOf(t) : t \in HighSeeds} \ DOMAIN detected0

\* C24: the technologies the engine adds have confidence Medium and never
\* propagate their own implies: the names added are exactly the direct implies
\* targets, not detected before, of the technologies that were High in the
\* initial detected map.
C24_AddedNeverPropagate == [][C24_Step]_vars /\ []C24_Done

\* A implies B, B implies U, only A detected, with confidence High: B is added
\* and U is not
C24_Witness ==
    /\ epc = "done"
    /\ DOMAIN detected0 = {"A"}
    /\ HighSeeds = {"A"}
    /\ apps["A"].Implies = <<"B">>
    /\ apps["B"].Implies = <<"U">>
    /\ DOMAIN detected = {"A", "B"}
    /\ procCount["B"] = 1

----------------------------------------------------------------------------
(* Properties of the Detection recorded at the end of the matcher phase *)

\* the apps named as the source of an implied Detection
ImpliedSources ==
    {t \in TechNames :
        \E n \in DOMAIN detected :
            /\ detected[n].MatchedPattern = ""
            /\ detected[n].DetectedBy = <<"implies from: ", t>>}

\* C25: the Detection recorded for a technology is the one written by the last
\* overwriting matcher that matched it, whatever the confidence recorded
\* before: matched by a header (High) and then by meta (Medium) or DOM (Low) it
\* holds the lower confidence, and the implies engine does not propagate from
\* a technology that ends the matcher phase below High.
C25_LastWriterDecidesConfidence ==
    /\ \A a \in KnownApps :
          (writes[a].last # None /\ rpc \in {"match", "implies"}) =>
              /\ a \in DOMAIN detected
              /\ detected[a].DetectedBy = writes[a].last
              /\ detected[a].Confidence = VectorConfidence(writes[a].last)
    /\ \A a \in KnownApps :
          (/\ rpc \in {"engine", "returned"}
           /\ a \in DOMAIN detected0
           /\ detected0[a].Confidence < ConfidenceHigh) =>
              /\ detected[a] = detected0[a]
              /\ a \notin ImpliedSources

\* A was matched by a High matcher and last by the DOM matcher: it ends with
\* confidence Low and nothing it implies is added
C25_Witness ==
    /\ rpc = "returned"
    /\ epc = "done"
    /\ writes["A"].best = ConfidenceHigh
    /\ writes["A"].last = "dom"
    /\ writes["B"].last = None
    /\ DOMAIN detected = {"A"}
    /\ detected["A"].Confidence = ConfidenceLow

----------------------------------------------------------------------------
(* Properties of the gathering goroutines and errChan *)

\* the results of kind t in the buffer of errChan
SentBy(t) == SelectSeq(errChan, LAMBDA res : res.kind = t)

\* a goroutine that has passed its send
HasSent(t) == tpc[t] \in {"sent", "done"}

\* the sends, the wait and the close of one request
C26_Safe ==
    /\ \A t \in Tasks :
          /\ tpc[t] # "panic"
          /\ tpc[t] = "send" => (Len(errChan) < ErrChanCap /\ ~chanClosed)
          /\ ~chanClosed => Len(SentBy(t)) = (IF HasSent(t) THEN 1 ELSE 0)
    /\ (rpc = "wait" /\ \A t \in Tasks : tpc[t] = "done") => wg = 0
    /\ rpc = "close" =>
          /\ Len(errChan) = ErrChanCap
          /\ \A t \in Tasks : tpc[t] = "done"
    /\ chanClosed => \A t \in Tasks : tpc[t] = "done"
    /\ rpc = "check" =>
          /\ errChan = <<>>
          /\ analysisErr = [MainPageErr |-> MainFailed, RobotsErr |-> RobotsFailed,
                            DNSErr |-> DNSFailed]

\* the range loop takes one result per iteration and ends on the empty channel
C26_Step ==
    rpc = "aggregate" =>
        \/ /\ errChan # <<>>
           /\ errChan' = Tail(errChan)
           /\ analysisErr' = Aggregate(analysisErr, Head(errChan))
           /\ rpc' = "aggregate"
        \/ /\ errChan = <<>>
           /\ rpc' = "check"

\* C26: each of the three gathering goroutines sends exactly one result on
\* errChan on every path; no send blocks, as the buffer holds three; wg.Wait
\* returns once the fetches have returned; errChan is closed only after the
\* three sends, no goroutine sends on the closed channel, and the aggregation
\* takes exactly the three results.
C26_ThreeResultsNoDeadlock ==
    /\ []C26_Safe
    /\ [][C26_Step]_vars
    /\ (rpc = "wait") ~> (rpc = "close")
    /\ (rpc = "aggregate") ~> (rpc = "check")

\* the URL did not parse and the main fetch failed: the three goroutines sent
\* on their error paths, the channel is closed and full, nothing is taken yet
C26_Witness ==
    /\ rpc = "aggregate"
    /\ chanClosed
    /\ ~urlOk
    /\ MainFailed
    /\ Len(errChan) = ErrChanCap
    /\ \A t \in Tasks : Len(SentBy(t)) = 1 /\ tpc[t] = "done"
    /\ \A i \in 1..Len(errChan) : errChan[i].err

----------------------------------------------------------------------------
(* ParsedPattern.extractVersion and evaluateVersionExpression *)

\* the longest piece of a version template and the most capture groups
MaxPiece == 1
MaxCaptures == 1

\* fmt.Sprintf("\\%d", i): one token of the template
Placeholder(i) == IF i = 1 THEN "\\1" ELSE IF i = 2 THEN "\\2" ELSE "\\n"

\* the tokens of a piece of a template: a character, a space, a placeholder
PieceChars == {"x", " ", Placeholder(1)}

Pieces == SeqsUpTo(PieceChars, MaxPiece)

\* cond?a:b
Ternary(cond, a, b) == cond \o <<"?">> \o a \o <<":">> \o b

\* the templates: plain, cond?a:b, and cond?a without the colon
Templates ==
    Pieces
    \cup {Ternary(cond, a, b) : cond \in Pieces, a \in Pieces, b \in Pieces}
    \cup {cond \o <<"?">> \o a : cond \in Pieces, a \in Pieces}

\* what a capture group holds: nothing or a digit
CaptureValues == {<<>>, <<"5">>}

\* the submatches of a match: the whole match, then the captures
SubmatchLists ==
    {<<<<"m">>>> \o caps : caps \in SeqsUpTo(CaptureValues, MaxCaptures)}

\* strings.ReplaceAll(s, old, new) for a one-token old
RECURSIVE ReplaceAll(_, _, _)
ReplaceAll(s, old, new) ==
    IF s = <<>> THEN <<>>
    ELSE (IF Head(s) = old THEN new ELSE <<Head(s)>>) \o ReplaceAll(Tail(s), old, new)

\* strings.Split(s, sep) for a one-token sep
RECURSIVE Split(_, _)
Split(s, sep) ==
    IF \A i \in DOMAIN s : s[i] # sep THEN <<s>>
    ELSE LET k == CHOOSE i \in DOMAIN s :
                        s[i] = sep /\ \A j \in 1..(i - 1) : s[j] # sep
         IN  <<SubSeq(s, 1, k - 1)>> \o Split(SubSeq(s, k + 1, Len(s)), sep)

\* strings.TrimSpace
RECURSIVE TrimSpace(_)
TrimSpace(s) ==
    IF s = <<>> THEN s
    ELSE IF Head(s) = " " THEN TrimSpace(Tail(s))
    ELSE IF s[Len(s)] = " " THEN TrimSpace(SubSeq(s, 1, Len(s) - 1))
    ELSE s

\* the loop of extractVersion: placeholder i replaced by capture i, from i on
RECURSIVE Substitute(_, _, _)
Substitute(result, caps, i) ==
    IF i > Len(caps) THEN result
    ELSE Substitute(ReplaceAll(result, Placeholder(i), caps[i]), caps, i + 1)

\* evaluateVersionExpression(expression, submatches): the string and whether
\* the error is non-nil
evaluateVersionExpression(expression, caps) ==
    IF \E i \in DOMAIN expression : expression[i] = "?"
    THEN LET parts == Split(expression, "?")
         IN  IF Len(parts) # 2 THEN [val |-> <<>>, err |-> TRUE]
             ELSE LET trueFalseParts == Split(parts[2], ":")
                  IN  IF Len(trueFalseParts) # 2 THEN [val |-> <<>>, err |-> TRUE]
                      ELSE IF trueFalseParts[1] # <<>>
                      THEN [val |-> IF Len(caps) = 0 THEN trueFalseParts[2]
                                    ELSE trueFalseParts[1],
                            err |-> FALSE]
                      ELSE IF trueFalseParts[2] = <<>>
                      THEN [val |-> IF Len(caps) = 0 THEN <<>> ELSE trueFalseParts[1],
                            err |-> FALSE]
                      ELSE [val |-> trueFalseParts[2], err |-> FALSE]
    ELSE [val |-> expression, err |-> FALSE]

\* ParsedPattern.extractVersion(submatches); the caller drops the error
extractVersionOf(version, subs) ==
    IF Len(subs) = 0 THEN <<>>
    ELSE LET caps == Tail(subs)
             res == evaluateVersionExpression(Substitute(version, caps, 1), caps)
         IN  IF res.err THEN <<>> ELSE TrimSpace(res.val)

\* extractedVersion, _ := p.extractVersion(submatches)
ExtractVersion ==
    /\ ~extracted.ran
    /\ extracted' = [ran |-> TRUE, val |-> extractVersionOf(pVersion, submatches)]
    /\ UNCHANGED <<pVersion, submatches, exceptVersionVars>>

InitVersion ==
    /\ IdleExceptVersion
    /\ pVersion \in Templates
    /\ submatches \in SubmatchLists
    /\ extracted = [ran |-> FALSE, val |-> <<>>]

NextVersion == ExtractVersion

SpecVersion == InitVersion /\ [][NextVersion]_vars

----------------------------------------------------------------------------
(* Properties of the version ternary *)

\* the template is cond?a:b with these pieces
IsTernary(cond, a, b) == pVersion = Ternary(cond, a, b)

\* a piece after the placeholders were replaced, trimmed
Filled(piece) == TrimSpace(Substitute(piece, Tail(submatches), 1))

\* C27: for a template cond?a:b the evaluator returns a when the match has at
\* least one capture and b when it has none, for an empty and for a non-empty
\* cond, also when a is empty and b is not.
C27_VersionTernary ==
    extracted.ran =>
        \A cond \in Pieces, a \in Pieces, b \in Pieces :
            IsTernary(cond, a, b) =>
                extracted.val = (IF Len(submatches) > 1 THEN Filled(a) ELSE Filled(b))

\* the evaluator never looks at cond: it returns a when a, after substitution,
\* is non-empty and the match has captures, and b otherwise
C27_AsCoded ==
    extracted.ran =>
        \A cond \in Pieces, a \in Pieces, b \in Pieces :
            IsTernary(cond, a, b) =>
                LET caps == Tail(submatches)
                    fa == Substitute(a, caps, 1)
                IN  extracted.val = (IF Len(caps) > 0 /\ fa # <<>> THEN Filled(a) ELSE Filled(b))

----------------------------------------------------------------------------
(* normalizePatternMap and normalizeMetaMap: the keys of the output *)

\* the spellings of a key in the raw fingerprints
RawKeys == {"x-tech", "X-Tech", "Other"}

\* the fields whose keys are HTTP header, cookie and meta names
NamedFields == {"headers", "cookies", "meta"}

\* a raw value: one pattern (a JSON string) or an array of patterns; a pattern
\* is kept by normalizePatternValue or dropped
RawMapValues ==
    {[kind |-> "string", items |-> <<k>>] : k \in {"good", "invalid"}}
    \cup {[kind |-> "array", items |-> items] :
            items \in SeqsUpTo({"good", "invalid"}, MaxItems)}

RawMaps == UNION {[S -> RawMapValues] : S \in SUBSET RawKeys}

IsArray(v) == v.kind = "array"

Kept(kind) == normalizePatternValue([app |-> "A", field |-> rawField, kind |-> kind])

\* normalizePatternMap: out[k] = *p for every value normalizePatternValue
\* keeps; an array is neither a string nor an object and is dropped
normalizePatternMap(mm) ==
    LET keys == {k \in DOMAIN mm : ~IsArray(mm[k]) /\ Kept(mm[k].items[1])}
    IN  [k \in keys |-> mm[k].items]

\* normalizeMetaValue: the patterns of a string or of an array that are kept
normalizeMetaValue(v) == SelectSeq(v.items, Kept)

\* normalizeMetaMap: out[k] = arr for every value with a pattern that is kept
normalizeMetaMap(mm) ==
    LET keys == {k \in DOMAIN mm : Len(normalizeMetaValue(mm[k])) > 0}
    IN  [k \in keys |-> normalizeMetaValue(mm[k])]

\* NormalizeFromBytes on the field
NormalizeField ==
    /\ ~outMap.done
    /\ outMap' = [done |-> TRUE,
                  map |-> IF rawField = "meta" THEN normalizeMetaMap(rawMap)
                          ELSE normalizePatternMap(rawMap)]
    /\ UNCHANGED <<rawField, rawMap, exceptKeyVars>>

InitKeys ==
    /\ IdleExceptKeys
    /\ rawField \in NamedFields
    /\ rawMap \in RawMaps
    /\ outMap = [done |-> FALSE, map |-> << >>]

NextKeys == NormalizeField

SpecKeys == InitKeys /\ [][NextKeys]_vars

\* C28: in the output of NormalizeFromBytes every key of a technology's
\* headers, cookies and meta maps is lower-case.
C28_KeysLowerCased ==
    outMap.done => \A k \in DOMAIN outMap.map : ToLower(k) = k

\* what the code does: the keys of the output are keys of the input, unchanged
C28_KeysAsGiven ==
    outMap.done =>
        /\ DOMAIN outMap.map \subseteq DOMAIN rawMap
        /\ \A k \in DOMAIN rawMap :
              (~IsArray(rawMap[k]) /\ Kept(rawMap[k].items[1])) => k \in DOMAIN outMap.map

----------------------------------------------------------------------------
(* A pattern through cleanWappalyzerPatternAST, the matcher build and a match *)

\* the depth of the syntax trees
MaxDepth == 2

\* const minPatternLength
minPatternLength == 4

\* a node of regexp/syntax: Op and Sub
Regexp(op, sub) == [op |-> op, sub |-> sub]

\* a literal of at least minPatternLength letters
Literal == Regexp("literal", <<>>)

\* the trees up to a depth: literals, capture groups, concatenations and
\* alternations
RECURSIVE RegexpsUpTo(_)
RegexpsUpTo(d) ==
    IF d = 0 THEN {Literal}
    ELSE LET R == RegexpsUpTo(d - 1)
         IN  {Literal}
             \cup {Regexp("capture", <<r>>) : r \in R}
             \cup {Regexp("concat", <<r1, r2>>) : r1 \in R, r2 \in R}
             \cup {Regexp("alternate", <<r1, r2>>) : r1 \in R, r2 \in R}

\* a pattern syntax.Parse rejects
Unparsable == Regexp("error", <<>>)

Regexps == RegexpsUpTo(MaxDepth) \cup {Unparsable}

\* the version commands: none, \1, \2, and one that is no submatch index
VersionCmds == {"", "\\1", "\\2", "1.0"}

\* the capture groups of a tree
RECURSIVE NumCaptures(_)
NumCaptures(r) ==
    (IF r.op = "capture" THEN 1 ELSE 0)
    + (IF Len(r.sub) = 0 THEN 0
       ELSE IF Len(r.sub) = 1 THEN NumCaptures(r.sub[1])
       ELSE NumCaptures(r.sub[1]) + NumCaptures(r.sub[2]))

\* transform that unwraps the outermost node only
transform_TopOnly(r) ==
    IF r.op = "capture" /\ Len(r.sub) > 0 THEN r.sub[1] ELSE r

\* transform: the sub-expressions first, then an OpCapture node is replaced by
\* its content
RECURSIVE transform(_)
transform(r) ==
    LET sub == [i \in DOMAIN r.sub |-> transform(r.sub[i])]
    IN  IF r.op = "capture" /\ Len(sub) > 0 THEN sub[1]
        ELSE Regexp(r.op, sub)

\* re.String(): a capture prints its parentheses; an alternation under a
\* concatenation is printed in a non-capturing group
RECURSIVE RegexpString(_, _)
RegexpString(r, inConcat) ==
    CASE r.op = "literal" -> <<"word">>
      [] r.op = "capture" -> <<"(">> \o RegexpString(r.sub[1], FALSE) \o <<")">>
      [] r.op = "concat" -> RegexpString(r.sub[1], TRUE) \o RegexpString(r.sub[2], TRUE)
      [] r.op = "alternate" ->
            LET alt == RegexpString(r.sub[1], FALSE) \o <<"|">> \o RegexpString(r.sub[2], FALSE)
            IN  IF inConcat THEN <<"(?:">> \o alt \o <<")">> ELSE alt

\* cleanWappalyzerPatternAST: "" for a pattern that does not parse
cleanWappalyzerPatternAST(r) ==
    IF r = Unparsable THEN <<>> ELSE RegexpString(transform(r), FALSE)

\* the letters and digits simpleCharCounter finds
AlnumCount(regex) ==
    Len(SelectSeq(regex, LAMBDA tok : tok = "word")) * minPatternLength

\* normalizePatternValue: the regex cleaned, the guardrails, the commands kept
CleanPattern ==
    /\ xpc = "raw"
    /\ LET cleaned == cleanWappalyzerPatternAST(rawRegex)
       IN  IF cleaned = <<>> \/ AlnumCount(cleaned) < minPatternLength
           THEN /\ emitted' = [done |-> TRUE, ok |-> FALSE, regex |-> <<>>]
                /\ xpc' = "dropped"
           ELSE /\ emitted' = [done |-> TRUE, ok |-> TRUE, regex |-> cleaned]
                /\ xpc' = "emitted"
    /\ UNCHANGED <<rawRegex, versionCmd, numSubexp, found, detVersion, exceptCleanVars>>

\* regexp.Compile("(?i)" + pat.Regex): NumSubexp of the compiled pattern, one
\* for each opening parenthesis of a capture group
NumSubexp(regex) == Len(SelectSeq(regex, LAMBDA tok : tok = "("))

\* BuildEfficientMatcher compiles the emitted pattern
CompilePattern ==
    /\ xpc = "emitted"
    /\ numSubexp' = NumSubexp(emitted.regex)
    /\ xpc' = "compiled"
    /\ UNCHANGED <<rawRegex, versionCmd, emitted, found, detVersion, exceptCleanVars>>

\* strconv.Atoi of the command without its backslash; 0 for a command that is
\* no submatch index
VersionIndex(cmd) == IF cmd = "\\1" THEN 1 ELSE IF cmd = "\\2" THEN 2 ELSE 0

\* the engine's extractVersion(commands, submatches)
extractVersion(cmd, subs) ==
    IF cmd = "" \/ Len(subs) <= 1 THEN ""
    ELSE IF VersionIndex(cmd) > 0 /\ Len(subs) > VersionIndex(cmd)
    THEN subs[VersionIndex(cmd) + 1]
    ELSE ""

\* a matcher finds the pattern in its input: FindStringSubmatch returns the
\* whole match and one string per capture group
MatchPattern ==
    /\ xpc = "compiled"
    /\ LET subs == <<"word">> \o [i \in 1..numSubexp |-> "5.8"]
       IN  /\ found' = subs
           /\ detVersion' = extractVersion(versionCmd, subs)
    /\ xpc' = "matched"
    /\ UNCHANGED <<rawRegex, versionCmd, emitted, numSubexp, exceptCleanVars>>

InitClean ==
    /\ IdleExceptClean
    /\ rawRegex \in Regexps
    /\ versionCmd \in VersionCmds
    /\ emitted = [done |-> FALSE, ok |-> FALSE, regex |-> <<>>]
    /\ numSubexp = 0
    /\ found = <<>>
    /\ detVersion = ""
    /\ xpc = "raw"

NextClean ==
    \/ CleanPattern
    \/ CompilePattern
    \/ MatchPattern

SpecClean == InitClean /\ [][NextClean]_vars

----------------------------------------------------------------------------
(* Properties of the emitted patterns *)

\* C29: a regex the normalizer emits contains no capturing group, so a match
\* of a pattern of a pipeline-built database has no submatch beyond index 0
\* and the engine's extractVersion returns the empty string, also for a
\* pattern with a version template such as \1.
C29_NoCaptureNoVersion ==
    /\ (emitted.done /\ emitted.ok) => \A i \in DOMAIN emitted.regex : emitted.regex[i] # "("
    /\ xpc \in {"compiled", "matched"} => numSubexp = 0
    /\ xpc = "matched" => (Len(found) = 1 /\ detVersion = "")

\* a pattern with two capture groups and the version template \1
\* was emitted, compiled and matched, and the Detection has no version
C29_Witness ==
    /\ xpc = "matched"
    /\ rawRegex = Regexp("concat", <<Regexp("capture", <<Literal>>), Regexp("capture", <<Literal>>)>>)
    /\ NumCaptures(rawRegex) = 2
    /\ versionCmd = "\\1"
    /\ found = <<"word">>
    /\ detVersion = ""

----------------------------------------------------------------------------
(* The constructors New and NewFromFile, and the first Get of FingerprintURL *)

\* return nil, err
CtorFail ==
    /\ kerr' = TRUE
    /\ kpc' = "returned"

\* New: categoryMap, err = loadCategories(), then k := &Kitsune{...}
\* NewFromFile: k := &Kitsune{...}, then categoryMap, err = loadCategories()
\* Neither struct literal sets httpClient, and NewFromFile does not read its
\* loadEmbedded and supersede arguments.
CtorStart ==
    /\ kpc = "start"
    /\ khttp' = "nil"
    /\ IF env.cats
       THEN /\ kpc' = IF ctor = "New" THEN "client" ELSE "read"
            /\ kerr' = kerr
       ELSE CtorFail
    /\ UNCHANGED <<ctor, clientArg, loadEmbedded, env, getCall, exceptCtorVars>>

\* New: if client == nil { k.httpClient = &http.Client{...} } else
\* { k.httpClient = client }
CtorSetClient ==
    /\ kpc = "client"
    /\ khttp' = IF clientArg = "nil" THEN "default" ELSE "custom"
    /\ kpc' = "read"
    /\ UNCHANGED <<ctor, clientArg, loadEmbedded, env, kerr, getCall, exceptCtorVars>>

\* embeddedFS.ReadFile("fingerprints_data.json") / os.ReadFile(filePath)
CtorRead ==
    /\ kpc = "read"
    /\ IF env.read
       THEN kpc' = "load" /\ kerr' = kerr
       ELSE CtorFail
    /\ UNCHANGED <<ctor, clientArg, loadEmbedded, env, khttp, getCall, exceptCtorVars>>

\* k.loadFingerprintsFromBytes; k.BuildEfficientMatcher(); return k, nil
CtorLoad ==
    /\ kpc = "load"
    /\ IF env.parse
       THEN kpc' = "returned" /\ kerr' = kerr
       ELSE CtorFail
    /\ UNCHANGED <<ctor, clientArg, loadEmbedded, env, khttp, getCall, exceptCtorVars>>

\* FingerprintURL on the instance returned without error:
\* resp, err := k.httpClient.Get(targetUrl) dereferences the client
CtorFingerprintURL ==
    /\ kpc = "returned"
    /\ ~kerr
    /\ getCall = "none"
    /\ getCall' = IF khttp = "nil" THEN "panic" ELSE "called"
    /\ kpc' = "request"
    /\ UNCHANGED <<ctor, clientArg, loadEmbedded, env, khttp, kerr, exceptCtorVars>>

InitCtor ==
    /\ IdleExceptCtor
    /\ ctor \in {"New", "NewFromFile"}
    /\ clientArg \in {"nil", "custom"}
    /\ loadEmbedded \in BOOLEAN
    /\ env \in [cats : BOOLEAN, read : BOOLEAN, parse : BOOLEAN]
    /\ khttp = "nil"
    /\ kerr = FALSE
    /\ kpc = "start"
    /\ getCall = "none"

NextCtor ==
    \/ CtorStart
    \/ CtorSetClient
    \/ CtorRead
    \/ CtorLoad
    \/ CtorFingerprintURL

SpecCtor == InitCtor /\ [][NextCtor]_vars

\* C30: every instance a constructor returns without error has a non-nil HTTP
\* client, so FingerprintURL on a constructed instance dereferences no nil
\* client.
C30_ConstructedHasClient ==
    /\ (kpc \in {"returned", "request"} /\ ~kerr) => khttp # "nil"
    /\ getCall # "panic"

\* what holds: New always sets the client, NewFromFile never does
C30_OnlyNewSetsClient ==
    (kpc \in {"returned", "request"} /\ ~kerr) =>
        khttp = (IF ctor = "NewFromFile" THEN "nil"
                 ELSE IF clientArg = "nil" THEN "default" ELSE "custom")

====
